---- MODULE Spec2Model ----
(***************************************************************************)
(* Run orchestration core of withings-sync-ui: the Run Ledger              *)
(* (RunService), the Process Supervisor (WithingsSyncRunner), the cron     *)
(* fire path and the boot sweep of the Scheduler (SchedulerService), the   *)
(* Session Multiplexer (WebSocketHandler) and the two routes that create   *)
(* and cancel runs (specification Spec); and the schedule bookkeeping of   *)
(* the Scheduler over the timer facility (specification SchedulerSpec).    *)
(* PureSpec applies the pure functions of the runner and the scheduler to  *)
(* bounded inputs; CleanupSpec runs the weekly cleanupOldRuns beside the   *)
(* interactive sessions, with the log files followed; LifeSpec is the life *)
(* of a run under the fairness the event loop, the child processes and the *)
(* timers give.                                                            *)
(*                                                                         *)
(* Node runs one callback at a time, so the code between two awaits is one *)
(* atomic step.  A database query takes effect when it is issued (the      *)
(* SQLite connection serves queries in the order they were issued); its    *)
(* result reaches the caller in a later step, the continuation of the      *)
(* await.  Every operation in flight is a record of `ops`: pc names the    *)
(* await (or event) the operation is waiting for, the other fields are the *)
(* locals of its closures.  Awaits that touch nothing another operation    *)
(* reads or writes are folded into the step before them: the getRunById of *)
(* startRun and completeRun (it reads the immutable profile id of the      *)
(* run), updateRun(logFilePath), the getProfileById of the runner (a       *)
(* profile with runs is never deleted here), syncToProfile, buildCliArgs.  *)
(*                                                                         *)
(* A WebSocket connection is a record of `conns`; frame is the last frame  *)
(* the server sent on it.  The 'message' and 'close' listeners exist from  *)
(* the moment the awaited interactive start returns (listening); an event  *)
(* of the client before that finds no listener.  The 'error' event of a    *)
(* connection is not modelled.  Texts are sequences of one-character       *)
(* strings.                                                                *)
(***************************************************************************)
EXTENDS Integers, Sequences, FiniteSets, TLC

\* Bounds of the model.
MaxRuns == 3
MaxOps == 2
MaxTicks == 2
TickMin == 10
MaxStimuli == 5
MaxConns == 2
MaxTimers == 6
MaxCalls == 2
MaxPasses == 1
MaxRequests == 2
RandomUnits == 120

\* Program constants, in minutes.
RUN_TIMEOUT_MIN == 10
ORPHAN_TIMEOUT_MIN == 30
SCHEDULED_TIMEOUT_MIN == 10

Null == -1

Profiles == {"p1"}
AllProfiles == {"p1", "p2"}
RunIds == 1..MaxRuns
OpIds == 1..MaxOps
ConnIds == 1..MaxConns
TimerIds == 1..MaxTimers
CallIds == 1..MaxCalls
PassIds == 1..MaxPasses

RunStatus == {"PENDING", "RUNNING", "SUCCESS", "FAILED"}
Terminal == {"SUCCESS", "FAILED"}

\* The clock reading when the server process starts.
BootTime == ORPHAN_TIMEOUT_MIN + RUN_TIMEOUT_MIN

VARIABLES
  runs,               \* the SyncRun table: RunIds -> record, status "NONE" = no row yet
  runningProfileIds,  \* RunService.runningProfileIds
  profiles,           \* the SyncProfile table: Profiles -> "enabled" | "disabled" | "missing"
  now,                \* wall clock, minutes
  ops,                \* operations in flight: OpIds -> record
  boot,               \* position of app.ts start(): "start", "getRunsByStatus", "listening"
  orphans,            \* cleanupOrphanedRuns: the runs of its getRunsByStatus still to visit
  stimuli,            \* inputs from outside so far: timer fires, requests, connections,
                      \* clock advances, injected failures, a row left by an earlier life
  conns,              \* WebSocket connections: ConnIds -> record
  activeSessions,     \* WebSocketHandler.activeSessions: session id (run id) -> connection, 0 = no entry
  opConn,             \* the connection in the closures of a handleWebSocketConnection in flight
  runningProcesses,   \* WithingsSyncRunner.runningProcesses: run id -> process (its slot), 0 = no entry
  stdin,              \* what was written to the stdin of the process of a slot
  scheduledJobs,      \* SchedulerService.scheduledJobs: profile id -> job (its timer), 0 = no entry
  resolvedCronExpressions, \* SchedulerService.resolvedCronExpressions: profile id -> text, <<>> = no entry
  timers,             \* the jobs of the timer facility (node-schedule): TimerIds -> record
  calls,              \* scheduleProfile calls in flight and their outcome: CallIds -> record
  scheduleCron,       \* the scheduleCron column of the SyncProfile table: text, <<>> = null
  scheduler,          \* SchedulerService: isRunning, reconciliationInterval, cleanupJob (0 = null)
  passes,             \* refreshSchedules calls in flight and their outcome: PassIds -> record
  pure,               \* the last application of a function checked on its own
  logFilePath,        \* the logFilePath column of the SyncRun table: RunIds -> BOOLEAN (FALSE = null)
  logFiles,           \* the runs whose log file is on disk
  purge               \* the cleanupOldRuns call of the weekly job: record

sessVars == <<conns, activeSessions, opConn, runningProcesses, stdin>>

schedVars == <<scheduledJobs, resolvedCronExpressions, timers, calls,
               scheduleCron, scheduler, passes>>

coreVars == <<runs, runningProfileIds, now, ops, orphans, sessVars>>

houseVars == <<logFilePath, logFiles, purge>>

vars == <<runs, runningProfileIds, profiles, now, ops, boot, orphans, stimuli,
          conns, activeSessions, opConn, runningProcesses, stdin,
          scheduledJobs, resolvedCronExpressions, timers, calls,
          scheduleCron, scheduler, passes, pure, logFilePath, logFiles, purge>>

NoRow == [profile |-> "none", mode |-> "none", status |-> "NONE", startedAt |-> Null,
          finishedAt |-> Null, exitCode |-> Null, errorMessage |-> "null"]

IdleOp == [kind |-> "idle", pc |-> "idle", profile |-> "none", run |-> Null,
           snap |-> "null", startRes |-> "none", threw |-> "null",
           proc |-> "none", signalled |-> FALSE, hasInteractivePrompt |-> FALSE,
           timer |-> FALSE, spawnedAt |-> Null,
           resolved |-> FALSE, success |-> FALSE, exitCode |-> Null,
           errorMessage |-> "null"]

\* A WebSocket connection: readyState ("open" = 1), the session id of its URL,
\* whether the message / close listeners are registered, whether its keepalive
\* interval is set, the last frame sent on it.
NoConn == [state |-> "none", run |-> Null, listening |-> FALSE, pingInterval |-> FALSE,
           frame |-> "null"]

---------------------------------------------------------------------------
(* detectInteractivePrompt: text as a sequence of characters.               *)

toLowerCase(c) ==
  CASE c = "A" -> "a" [] c = "B" -> "b" [] c = "C" -> "c" [] c = "D" -> "d"
    [] c = "E" -> "e" [] c = "F" -> "f" [] c = "G" -> "g" [] c = "H" -> "h"
    [] c = "I" -> "i" [] c = "J" -> "j" [] c = "K" -> "k" [] c = "L" -> "l"
    [] c = "M" -> "m" [] c = "N" -> "n" [] c = "O" -> "o" [] c = "P" -> "p"
    [] c = "Q" -> "q" [] c = "R" -> "r" [] c = "S" -> "s" [] c = "T" -> "t"
    [] c = "U" -> "u" [] c = "V" -> "v" [] c = "W" -> "w" [] c = "X" -> "x"
    [] c = "Y" -> "y" [] c = "Z" -> "z" [] OTHER -> c

Lower(s) == [i \in 1..Len(s) |-> toLowerCase(s[i])]

includes(s, t) ==
  \E i \in 0..(Len(s) - Len(t)) : \A j \in 1..Len(t) : s[i + j] = t[j]

INTERACTIVE_PROMPT_PATTERNS ==
  { <<"U","s","e","r"," ","i","n","t","e","r","a","c","t","i","o","n"," ","n","e","e","d","e","d"," ","t","o"," ","g","e","t"," ","A","u","t","h","e","n","t","i","f","i","c","a","t","i","o","n"," ","C","o","d","e"," ","f","r","o","m"," ","W","i","t","h","i","n","g","s","!">>,
    <<"M","F","A"," ","c","o","d","e",":">>,
    <<"E","n","t","e","r"," ","a","u","t","h","e","n","t","i","c","a","t","i","o","n"," ","c","o","d","e",":">>,
    <<"P","l","e","a","s","e"," ","e","n","t","e","r"," ","t","h","e"," ","c","o","d","e",":">> }

detectInteractivePrompt(output) ==
  \E pattern \in INTERACTIVE_PROMPT_PATTERNS : includes(Lower(output), Lower(pattern))

\* Output chunks the child process may write.
Chunks ==
  { <<"P","l","e","a","s","e"," ","e","n","t","e","r"," ","t","h","e"," ","M","F","A"," ","c","o","d","e",":">>,
    <<"m","f","a"," ","C","O","D","E",":"," ">>,
    <<"M","F","A"," ","c","o","d","e">>,
    <<"S","y","n","c"," ","c","o","m","p","l","e","t","e","d"," ","s","u","c","c","e","s","s","f","u","l","l","y">> }

---------------------------------------------------------------------------
(* The record store.                                                        *)

\* The partial unique index SyncRun_running_profile_unique: setting run r to
\* RUNNING is refused when another row of the same profile is RUNNING.
UniqueViolationNoIndex(rs, r) == FALSE

UniqueViolation(rs, r) ==
  \E q \in RunIds \ {r} : rs[q].status = "RUNNING" /\ rs[q].profile = rs[r].profile

FreshRunId(rs) == CHOOSE r \in RunIds : rs[r].status = "NONE" /\ \A q \in RunIds : q < r => rs[q].status # "NONE"

HasFreshRun(rs) == \E r \in RunIds : rs[r].status = "NONE"

\* prisma.syncRun.create in createRun: status PENDING, startedAt defaults to now.
createRun(rs, p, mode, t) ==
  [rs EXCEPT ![FreshRunId(rs)] = [NoRow EXCEPT !.profile = p, !.mode = mode,
                                               !.status = "PENDING", !.startedAt = t]]

\* The update of startRun; a row that was deleted is not written.
startRunUpdate(rs, r, t) ==
  IF rs[r].status = "NONE" THEN rs
  ELSE [rs EXCEPT ![r].status = "RUNNING", ![r].startedAt = t]

\* The update of completeRun; an undefined exitCode or errorMessage (Null, "null")
\* leaves the column as it is; a row that was deleted is not written.
completeRunUpdate(rs, r, status, exitCode, errorMessage, t) ==
  IF rs[r].status = "NONE" THEN rs
  ELSE [rs EXCEPT ![r].status = status,
                  ![r].exitCode = IF exitCode = Null THEN @ ELSE exitCode,
                  ![r].errorMessage = IF errorMessage = "null" THEN @ ELSE errorMessage,
                  ![r].finishedAt = t]

\* The where clause of cleanupStaleRuns.
IsStaleAnyStatus(row, t) == row.status \in RunStatus /\ row.startedAt < t - RUN_TIMEOUT_MIN

IsStale(row, t) == row.status = "RUNNING" /\ row.startedAt < t - RUN_TIMEOUT_MIN

\* cleanupStaleRuns: one updateMany.
cleanupStaleRuns(rs, t) ==
  [r \in RunIds |-> IF IsStale(rs[r], t)
                    THEN [rs[r] EXCEPT !.status = "FAILED", !.finishedAt = t,
                                       !.errorMessage = "Run timed out after 10 minutes"]
                    ELSE rs[r]]

\* An answer taken from the in-memory guard set instead of the store.
findRunningGuarded(rs, p) == p \in runningProfileIds

\* findFirst({syncProfileId, status: RUNNING}) of isProfileRunning and
\* getRunningRunForProfile.
findRunning(rs, p) == \E r \in RunIds : rs[r].profile = p /\ rs[r].status = "RUNNING"

\* The update of cancelRun.
cancelRunUpdate(rs, r, t) ==
  [rs EXCEPT ![r].status = "FAILED", ![r].finishedAt = t,
             ![r].errorMessage = "Run cancelled by user"]

---------------------------------------------------------------------------
(* Operation slots and the initial state.                                   *)

\* One more input from outside.
Stimulus == stimuli < MaxStimuli /\ stimuli' = stimuli + 1

NewOp(o) == ops[o].kind = "idle" /\ \A q \in OpIds : q < o => ops[q].kind # "idle"

\* The control flow of an operation has ended; its slot stays while its child
\* process is alive.
Release(rec) ==
  IF rec.proc = "alive"
  THEN [IdleOp EXCEPT !.kind = rec.kind, !.pc = "finished", !.profile = rec.profile,
                      !.proc = "alive", !.signalled = rec.signalled]
  ELSE IdleOp

\* A throw inside the try block of runSync / startInteractiveRun: the catch block
\* calls failRun, which awaits getRunById.
Throw(rec, msg) == [rec EXCEPT !.threw = msg, !.pc = "catch"]

\* createRunLogger and updateRun(runId, {logFilePath}) at the entry of runSync /
\* startInteractiveRun: the column holds the path and the file is written from
\* then on.  A column that is not followed (<<>>) stays as it is.
updateRunLogFilePath(r) ==
  /\ logFilePath' = IF r \in DOMAIN logFilePath THEN [logFilePath EXCEPT ![r] = TRUE]
                    ELSE logFilePath
  /\ logFiles' = IF r \in DOMAIN logFilePath THEN logFiles \cup {r} ELSE logFiles

\* A row left by an earlier life of the server.
LegacyRow(p, mode, status, age) ==
  [NoRow EXCEPT !.profile = p, !.mode = mode, !.status = status,
                !.startedAt = BootTime - age,
                !.finishedAt = IF status \in Terminal THEN BootTime - age ELSE Null,
                !.exitCode = IF status = "SUCCESS" THEN 0 ELSE Null]

LegacyRows ==
  UNION { { LegacyRow(p, "CRON", "RUNNING", ORPHAN_TIMEOUT_MIN + RUN_TIMEOUT_MIN),
            LegacyRow(p, "MANUAL", "RUNNING", ORPHAN_TIMEOUT_MIN),
            LegacyRow(p, "CRON", "RUNNING", RUN_TIMEOUT_MIN),
            LegacyRow(p, "MANUAL", "PENDING", ORPHAN_TIMEOUT_MIN + RUN_TIMEOUT_MIN),
            LegacyRow(p, "CRON", "SUCCESS", ORPHAN_TIMEOUT_MIN + RUN_TIMEOUT_MIN) } : p \in Profiles }

NoTimer == [state |-> "free", callback |-> "none", rule |-> <<>>]

NoCall == [pc |-> "idle", profileId |-> "none", cronExpression |-> <<>>,
           profile |-> "none", threw |-> "null", pass |-> 0]

\* inputs and alone tell what ran beside a pass: the count of inputs at its call
\* and whether a scheduleProfile call was awaiting then.
NoPass == [pc |-> "idle", list |-> <<>>, i |-> 0, threw |-> "null", caller |-> "none",
           logged |-> {}, inputs |-> 0, alone |-> TRUE]

NoScheduler == [isRunning |-> FALSE, reconciliationInterval |-> FALSE, cleanupJob |-> 0]

\* A profile without a service account of a kind has NoAccount for it.
NoAccount == [username |-> "null", passwordEncrypted |-> "null"]

NoPure == [fn |-> "none"]

NoPurge == [pc |-> "idle", cutoffDate |-> Null, runsToDelete |-> {}, deletedLogFiles |-> 0,
            deletedRuns |-> Null]

\* The server process starts: the in-memory state is empty, the tables are what
\* the earlier life left.
InitCore ==
  /\ runs \in { [r \in RunIds |-> IF r = 1 THEN row ELSE NoRow] : row \in LegacyRows \cup {NoRow} }
  /\ runningProfileIds = {}
  /\ profiles = [p \in AllProfiles |-> "enabled"]
  /\ now = BootTime
  /\ ops = [o \in OpIds |-> IdleOp]
  /\ boot = "start"
  /\ orphans = {}
  /\ stimuli = IF runs[1] = NoRow THEN 0 ELSE 1
  /\ conns = [c \in ConnIds |-> NoConn]
  /\ activeSessions = [r \in RunIds |-> 0]
  /\ opConn = [o \in OpIds |-> 0]
  /\ runningProcesses = [r \in RunIds |-> 0]
  /\ stdin = [o \in OpIds |-> <<>>]
  /\ scheduler = NoScheduler
  /\ pure = NoPure
  /\ logFilePath = <<>> /\ logFiles = {} /\ purge = NoPurge

\* The scheduler at construction: both maps empty (0 and <<>> stand for no
\* entry), no job created, no call in flight.
InitScheduler ==
  /\ scheduledJobs = [p \in AllProfiles |-> 0]
  /\ resolvedCronExpressions = [p \in AllProfiles |-> <<>>]
  /\ timers = [j \in TimerIds |-> NoTimer]
  /\ calls = [k \in CallIds |-> NoCall]
  /\ passes = [ps \in PassIds |-> NoPass]

---------------------------------------------------------------------------
(* app.ts start(): SchedulerService.initialize runs before server.listen.   *)

\* cleanupOrphanedRuns: getRunsByStatus(RUNNING).
cleanupOrphanedRuns ==
  /\ boot = "start"
  /\ orphans' = {r \in RunIds : runs[r].status = "RUNNING"}
  /\ boot' = "getRunsByStatus"
  /\ UNCHANGED <<runs, runningProfileIds, profiles, now, ops, stimuli>>
  /\ UNCHANGED <<sessVars, schedVars, pure, houseVars>>

\* The age test of the loop of cleanupOrphanedRuns.
IsOrphan(row, t) == t - row.startedAt > ORPHAN_TIMEOUT_MIN

\* One turn of the loop: failRun for a run older than 30 minutes.
orphanFailRun ==
  /\ boot = "getRunsByStatus" /\ orphans # {}
  /\ LET r == CHOOSE q \in orphans : \A x \in orphans : q <= x
     IN /\ orphans' = orphans \ {r}
        /\ IF IsOrphan(runs[r], now)
           THEN /\ runningProfileIds' = runningProfileIds \ {runs[r].profile}
                /\ runs' = completeRunUpdate(runs, r, "FAILED", Null,
                                             "Run marked as failed due to application restart", now)
           ELSE UNCHANGED <<runs, runningProfileIds>>
  /\ UNCHANGED <<profiles, now, ops, boot, stimuli>>
  /\ UNCHANGED <<sessVars, schedVars, pure, houseVars>>

\* The loop is over; the schedules are loaded and the server listens.
listen ==
  /\ boot = "getRunsByStatus" /\ orphans = {}
  /\ boot' = "listening"
  /\ UNCHANGED <<runs, runningProfileIds, profiles, now, ops, orphans, stimuli>>
  /\ UNCHANGED <<sessVars, schedVars, pure, houseVars>>

---------------------------------------------------------------------------
(* The profile table.                                                       *)

\* updateProfile with enabled = false.
disableProfile(p) ==
  /\ boot = "listening" /\ profiles[p] = "enabled" /\ Stimulus
  /\ profiles' = [profiles EXCEPT ![p] = "disabled"]
  /\ UNCHANGED <<runs, runningProfileIds, now, ops, boot, orphans>>
  /\ UNCHANGED <<sessVars, schedVars, pure, houseVars>>

\* deleteProfile of a profile that has no runs (the transaction deletes the
\* runs of the profile with it).
deleteProfile(p) ==
  /\ boot = "listening" /\ profiles[p] # "missing" /\ Stimulus
  /\ \A r \in RunIds : runs[r].profile # p
  /\ \A o \in OpIds : ops[o].profile # p
  /\ profiles' = [profiles EXCEPT ![p] = "missing"]
  /\ UNCHANGED <<runs, runningProfileIds, now, ops, boot, orphans>>
  /\ UNCHANGED <<sessVars, schedVars, pure, houseVars>>

---------------------------------------------------------------------------
(* SchedulerService.executeScheduledRun                                     *)

\* The timer of profile p fires: isProfileRunning is called and issues
\* cleanupStaleRuns.
executeScheduledRun(p) ==
  \E o \in OpIds :
    /\ boot = "listening" /\ Stimulus /\ NewOp(o)
    /\ runs' = cleanupStaleRuns(runs, now)
    /\ ops' = [ops EXCEPT ![o] = [IdleOp EXCEPT !.kind = "cron", !.profile = p,
                                                !.pc = "cleanupStaleRuns"]]
    /\ UNCHANGED <<runningProfileIds, profiles, now, boot, orphans>>
    /\ UNCHANGED <<sessVars, schedVars, pure, houseVars>>

\* isProfileRunning after the sweep: findFirst of a RUNNING run of the profile.
isProfileRunning(o) ==
  /\ ops[o].pc = "cleanupStaleRuns"
  /\ ops' = [ops EXCEPT ![o].pc = "isProfileRunning",
                        ![o].snap = IF findRunning(runs, ops[o].profile) THEN "running" ELSE "free"]
  /\ UNCHANGED <<runs, runningProfileIds, profiles, now, boot, orphans, stimuli>>
  /\ UNCHANGED <<sessVars, schedVars, pure, houseVars>>

\* The profile is running: the fire is skipped.  Otherwise getProfileById.
esrGetProfile(o) ==
  /\ ops[o].pc = "isProfileRunning"
  /\ ops' = [ops EXCEPT ![o] = IF ops[o].snap = "running" THEN IdleOp
                               ELSE [@ EXCEPT !.pc = "esr.getProfileById",
                                              !.snap = profiles[ops[o].profile]]]
  /\ UNCHANGED <<runs, runningProfileIds, profiles, now, boot, orphans, stimuli>>
  /\ UNCHANGED <<sessVars, schedVars, pure, houseVars>>

\* The test `!profile || !profile.enabled` of executeScheduledRun.
fireSkippedNever(snap) == FALSE

fireSkipped(snap) == snap # "enabled"

\* The profile is missing or disabled: the fire is skipped.  Otherwise createRun
\* (mode CRON), and runSync is entered: updateRun(logFilePath), getProfileById.
esrCreateRun(o) ==
  /\ ops[o].pc = "esr.getProfileById"
  /\ IF fireSkipped(ops[o].snap)
     THEN /\ ops' = [ops EXCEPT ![o] = IdleOp]
          /\ UNCHANGED <<runs, logFilePath, logFiles>>
     ELSE /\ HasFreshRun(runs)
          /\ runs' = createRun(runs, ops[o].profile, "CRON", now)
          /\ ops' = [ops EXCEPT ![o].pc = "getProfileById", ![o].run = FreshRunId(runs),
                                ![o].snap = "null"]
          /\ updateRunLogFilePath(FreshRunId(runs))
  /\ UNCHANGED <<runningProfileIds, profiles, now, boot, orphans, stimuli>>
  /\ UNCHANGED <<sessVars, schedVars, pure, purge>>

---------------------------------------------------------------------------
(* POST /profiles/:id/run-interactive and POST /runs/:id/cancel             *)

\* The route finds the profile and asks getRunningRunForProfile.
runInteractive(p) ==
  \E o \in OpIds :
    /\ boot = "listening" /\ Stimulus /\ NewOp(o)
    /\ profiles[p] # "missing"
    /\ ops' = [ops EXCEPT ![o] = [IdleOp EXCEPT !.kind = "route", !.profile = p,
                                                !.pc = "getRunningRunForProfile",
                                                !.snap = IF findRunning(runs, p) THEN "running" ELSE "free"]]
    /\ UNCHANGED <<runs, runningProfileIds, profiles, now, boot, orphans>>
    /\ UNCHANGED <<sessVars, schedVars, pure, houseVars>>

\* A running run is reused as the session; otherwise createRun (mode MANUAL).
runInteractiveCreate(o) ==
  /\ ops[o].pc = "getRunningRunForProfile"
  /\ IF ops[o].snap = "running"
     THEN UNCHANGED runs
     ELSE /\ HasFreshRun(runs)
          /\ runs' = createRun(runs, ops[o].profile, "MANUAL", now)
  /\ ops' = [ops EXCEPT ![o] = IdleOp]
  /\ UNCHANGED <<runningProfileIds, profiles, now, boot, orphans, stimuli>>
  /\ UNCHANGED <<sessVars, schedVars, pure, houseVars>>

\* RunService.cancelRun: getRunById.
cancelRun(r) ==
  \E o \in OpIds :
    /\ boot = "listening" /\ Stimulus /\ NewOp(o)
    /\ runs[r].status # "NONE"
    /\ ops' = [ops EXCEPT ![o] = [IdleOp EXCEPT !.kind = "cancel", !.profile = runs[r].profile,
                                                !.run = r, !.pc = "cancel.getRunById",
                                                !.snap = runs[r].status]]
    /\ UNCHANGED <<runs, runningProfileIds, profiles, now, boot, orphans>>
    /\ UNCHANGED <<sessVars, schedVars, pure, houseVars>>

\* The status test of cancelRun, on the run it read.
cancelRefused(snap) == snap # "RUNNING"

\* The run read was not RUNNING: throw.  Otherwise the update to FAILED.
cancelRunWrite(o) ==
  /\ ops[o].pc = "cancel.getRunById"
  /\ IF cancelRefused(ops[o].snap)
     THEN /\ ops' = [ops EXCEPT ![o] = IdleOp]
          /\ UNCHANGED runs
     ELSE /\ runs' = cancelRunUpdate(runs, ops[o].run, now)
          /\ ops' = [ops EXCEPT ![o].pc = "cancel.update", ![o].snap = "null"]
  /\ UNCHANGED <<runningProfileIds, profiles, now, boot, orphans, stimuli>>
  /\ UNCHANGED <<sessVars, schedVars, pure, houseVars>>

\* After the update: the profile leaves the guard set.
cancelRunRelease(o) ==
  /\ ops[o].pc = "cancel.update"
  /\ runningProfileIds' = runningProfileIds \ {ops[o].profile}
  /\ ops' = [ops EXCEPT ![o] = IdleOp]
  /\ UNCHANGED <<runs, profiles, now, boot, orphans, stimuli>>
  /\ UNCHANGED <<sessVars, schedVars, pure, houseVars>>

---------------------------------------------------------------------------
(* WebSocketHandler: a client connects to /ws/interactive/:sessionId        *)

\* connection.send: a frame reaches an open connection only (the output callback
\* tests readyState, and send on a closed socket is dropped).
send(cn, frame) == IF cn.state = "open" THEN [cn EXCEPT !.frame = frame] ELSE cn

\* A connection record nothing refers to any more.
Forgotten(c) ==
  /\ conns[c].state = "closed" /\ ~conns[c].pingInterval
  /\ \A r \in RunIds : activeSessions[r] # c
  /\ \A o \in OpIds : opConn[o] # c

FreeConn(c) == conns[c].state = "none" \/ Forgotten(c)

NewConn(c) == FreeConn(c) /\ \A d \in ConnIds : d < c => ~FreeConn(d)

\* handleWebSocketConnection: validateSession reads the run.  A session id with
\* no run is the last run id while it has no row.
handleWebSocketConnection(r) ==
  \E o \in OpIds, c \in ConnIds :
    /\ boot = "listening" /\ Stimulus /\ NewOp(o) /\ NewConn(c)
    /\ runs[r].status = "NONE" => r = MaxRuns
    /\ ops' = [ops EXCEPT ![o] = [IdleOp EXCEPT !.kind = "ws", !.profile = runs[r].profile,
                                                !.run = r, !.pc = "validateSession",
                                                !.snap = IF runs[r].mode = "MANUAL"
                                                         THEN runs[r].status ELSE "invalid"]]
    /\ conns' = [conns EXCEPT ![c] = [NoConn EXCEPT !.state = "open", !.run = r]]
    /\ opConn' = [opConn EXCEPT ![o] = c]
    /\ UNCHANGED <<runs, runningProfileIds, profiles, now, boot, orphans>>
    /\ UNCHANGED <<activeSessions, runningProcesses, stdin, schedVars, pure, houseVars>>

\* The test of validateSession on the run it read.
sessionValidAlways(snap) == TRUE

sessionValid(snap) == snap \in {"PENDING", "RUNNING"}

\* validateSession returns.  No run, a run that is not PENDING or RUNNING, or
\* not MANUAL: an error frame, and the connection is closed.  Otherwise the
\* keepalive interval is set, the session is stored, the status frame
\* 'connected' is sent and startInteractiveRun of the handler reads the run
\* again.
wsValidated(o) ==
  LET c == opConn[o]
      r == ops[o].run
  IN /\ ops[o].pc = "validateSession"
     /\ IF sessionValid(ops[o].snap)
        THEN /\ ops' = [ops EXCEPT ![o].pc = "ws.getRunById", ![o].snap = runs[r].status]
             /\ conns' = [conns EXCEPT ![c] = [send(@, "connected") EXCEPT !.pingInterval = TRUE]]
             /\ activeSessions' = [activeSessions EXCEPT ![r] = c]
             /\ UNCHANGED opConn
        ELSE /\ ops' = [ops EXCEPT ![o] = IdleOp]
             /\ conns' = [conns EXCEPT ![c] = [send(@, "Invalid or expired session")
                                                 EXCEPT !.state = "closed"]]
             /\ opConn' = [opConn EXCEPT ![o] = 0]
             /\ UNCHANGED activeSessions
     /\ UNCHANGED <<runs, runningProfileIds, profiles, now, boot, orphans, stimuli>>
     /\ UNCHANGED <<runningProcesses, stdin, schedVars, pure, houseVars>>

\* The test `run?.status === RunStatus.RUNNING` of startInteractiveRun.
resumedNever(snap) == FALSE

resumed(snap) == snap = "RUNNING"

\* A RUNNING run is resumed: a status frame, no process; the handler returns and
\* the message and close listeners are registered.  Otherwise
\* WithingsSyncRunner.startInteractiveRun is entered: updateRun(logFilePath),
\* getProfileById.
wsStartInteractiveRun(o) ==
  LET c == opConn[o]
  IN /\ ops[o].pc = "ws.getRunById"
     /\ IF resumed(ops[o].snap)
        THEN /\ ops' = [ops EXCEPT ![o] = IdleOp]
             /\ conns' = [conns EXCEPT ![c] = [send(@, "Resumed existing interactive session")
                                                 EXCEPT !.listening = TRUE]]
             /\ opConn' = [opConn EXCEPT ![o] = 0]
             /\ UNCHANGED <<logFilePath, logFiles>>
        ELSE /\ ops' = [ops EXCEPT ![o].pc = "getProfileById", ![o].snap = "null"]
             /\ UNCHANGED <<conns, opConn>>
             /\ updateRunLogFilePath(ops[o].run)
     /\ UNCHANGED <<runs, runningProfileIds, profiles, now, boot, orphans, stimuli>>
     /\ UNCHANGED <<activeSessions, runningProcesses, stdin, schedVars, pure, purge>>

\* failRun of the catch block of startInteractiveRun has returned: the error
\* frame is sent through the output callback, the runner and the handler
\* return, and the message and close listeners are registered.
wsSetupFailed(o) ==
  LET c == opConn[o]
  IN /\ ops[o].pc = "failRun"
     /\ ops' = [ops EXCEPT ![o] = IdleOp]
     /\ conns' = [conns EXCEPT ![c] = [send(@, ops[o].threw) EXCEPT !.listening = TRUE]]
     /\ opConn' = [opConn EXCEPT ![o] = 0]
     /\ UNCHANGED <<runs, runningProfileIds, profiles, now, boot, orphans, stimuli>>
     /\ UNCHANGED <<activeSessions, runningProcesses, stdin, schedVars, pure, houseVars>>

---------------------------------------------------------------------------
(* WithingsSyncRunner.runSync / startInteractiveRun up to the spawn.        *)

\* RunService.startRun: the guard check.
startRunGuard(guard, p) == p \in guard

\* syncToProfile may throw; then RunService.startRun after its getRunById: the
\* guard check, the guard add and the update, which the unique index may refuse.
startRun(o) ==
  LET p == ops[o].profile
      r == ops[o].run
  IN /\ ops[o].pc = "getProfileById"
     /\ \/ /\ Stimulus
           /\ ops' = [ops EXCEPT ![o] = Throw(@, "Failed to decrypt withingsConsumerSecret")]
           /\ UNCHANGED <<runs, runningProfileIds>>
        \/ /\ startRunGuard(runningProfileIds, p)
           /\ ops' = [ops EXCEPT ![o] = Throw(@, "Profile is already running")]
           /\ UNCHANGED <<runs, runningProfileIds, stimuli>>
        \/ /\ ~startRunGuard(runningProfileIds, p)
           /\ runningProfileIds' = runningProfileIds \cup {p}
           /\ IF UniqueViolation(runs, r)
              THEN /\ ops' = [ops EXCEPT ![o].pc = "startRun", ![o].startRes = "dbErr"]
                   /\ UNCHANGED runs
              ELSE /\ ops' = [ops EXCEPT ![o].pc = "startRun", ![o].startRes = "ok"]
                   /\ runs' = startRunUpdate(runs, r, now)
           /\ UNCHANGED stimuli
     /\ UNCHANGED <<profiles, now, boot, orphans>>
     /\ UNCHANGED <<sessVars, schedVars, pure, houseVars>>

\* The catch block: failRun -> completeRun releases the guard of the profile and
\* writes FAILED with the message of the error.
catchBlockNoFail(rs, r, msg, t) == rs

catchBlock(rs, r, msg, t) == completeRunUpdate(rs, r, "FAILED", Null, msg, t)

runnerCatch(o) ==
  /\ ops[o].pc = "catch"
  /\ runningProfileIds' = runningProfileIds \ {ops[o].profile}
  /\ runs' = catchBlock(runs, ops[o].run, ops[o].threw, now)
  /\ ops' = [ops EXCEPT ![o] = IF @.kind = "ws" THEN [@ EXCEPT !.pc = "failRun"] ELSE IdleOp]
  /\ UNCHANGED <<profiles, now, boot, orphans, stimuli>>
  /\ UNCHANGED <<sessVars, schedVars, pure, houseVars>>

\* The child process is spawned only on the path on which startRun returned.
spawnAllowedAlways(rec) == TRUE

spawnAllowed(rec) == rec.startRes = "ok"

\* startRun returns or rethrows the error of its update; buildCliArgs returns (or
\* a stored password cannot be decrypted); the child process is spawned (or the
\* spawn fails, which the error event reports).
spawnStep(o, armTimer, nextPc) ==
  /\ ops[o].pc = "startRun"
  /\ \/ /\ ~spawnAllowed(ops[o])
        /\ ops' = [ops EXCEPT ![o] = Throw(@, "Unique constraint failed")]
        /\ UNCHANGED stimuli
     \/ /\ spawnAllowed(ops[o])
        /\ Stimulus
        /\ ops' = [ops EXCEPT ![o] = Throw(@, "Failed to decrypt password")]
     \/ /\ spawnAllowed(ops[o])
        /\ ops' = [ops EXCEPT ![o].pc = nextPc, ![o].proc = "alive",
                              ![o].timer = armTimer,
                              ![o].spawnedAt = IF armTimer THEN now ELSE Null]
        /\ UNCHANGED stimuli
     \/ /\ spawnAllowed(ops[o])
        /\ Stimulus
        /\ ops' = [ops EXCEPT ![o].pc = nextPc, ![o].proc = "failed",
                              ![o].timer = armTimer,
                              ![o].spawnedAt = IF armTimer THEN now ELSE Null]
  /\ UNCHANGED <<runs, runningProfileIds, profiles, now, boot, orphans>>

---------------------------------------------------------------------------
(* WithingsSyncRunner.executeCli (scheduled runs)                           *)

executeCli(o) ==
  /\ ops[o].kind = "cron" /\ spawnStep(o, TRUE, "executeCli")
  /\ UNCHANGED <<sessVars, schedVars, pure, houseVars>>

\* A promise that is never settled.
resolveNever(rec, success, exitCode, errorMessage) == rec

\* resolve(result): the first call settles the promise, and runSync goes on to
\* succeedRun / failRun, which awaits getRunById.
resolve(rec, success, exitCode, errorMessage) ==
  IF rec.resolved THEN rec
  ELSE [rec EXCEPT !.resolved = TRUE, !.success = success, !.exitCode = exitCode,
                   !.errorMessage = errorMessage, !.pc = "completeRun"]

\* detectInteractivePrompt over the chunks, computed once.
PromptChunks == {text \in Chunks : detectInteractivePrompt(text)}

\* A chunk on stdout or stderr: a prompt sets hasInteractivePrompt and sends
\* SIGTERM.
cliData(o, text) ==
  /\ ops[o].kind = "cron" /\ ops[o].proc = "alive" /\ ops[o].pc # "finished"
  /\ ops' = [ops EXCEPT ![o] = IF text \in PromptChunks
                               THEN [@ EXCEPT !.hasInteractivePrompt = TRUE, !.signalled = TRUE]
                               ELSE @]
  /\ UNCHANGED <<runs, runningProfileIds, profiles, now, boot, orphans, stimuli>>
  /\ UNCHANGED <<sessVars, schedVars, pure, houseVars>>

\* The timeout elapses: SIGTERM and the timeout result.
cliTimeout(o) ==
  /\ ops[o].kind = "cron" /\ ops[o].timer
  /\ now >= ops[o].spawnedAt + SCHEDULED_TIMEOUT_MIN
  /\ ops' = [ops EXCEPT ![o] = resolve([@ EXCEPT !.timer = FALSE,
                                                 !.signalled = (@ \/ ops[o].proc = "alive")],
                                       FALSE, Null, "Process timed out after 600000ms")]
  /\ UNCHANGED <<runs, runningProfileIds, profiles, now, boot, orphans, stimuli>>
  /\ UNCHANGED <<sessVars, schedVars, pure, houseVars>>

\* clearTimeout(timeoutHandle) of the close and error handlers.
clearTimeoutSkipped(rec) == rec

clearTimeout(rec) == [rec EXCEPT !.timer = FALSE]

\* The exit codes a close event may carry (null: killed by the signal).
ExitCodes(rec) == IF rec.signalled THEN {0, 1, Null} ELSE {0, 1}

exitedMessage(code) ==
  CASE code = 0 -> "Process exited with code 0"
    [] code = 1 -> "Process exited with code 1"
    [] OTHER -> "Process exited with code null"

\* The close handler of executeCli.
closeResultNeverSuccess(rec, code) ==
  IF rec.hasInteractivePrompt
  THEN resolve(rec, FALSE, code, "withings-sync requires re/authentication: please run interactively")
  ELSE resolve(rec, FALSE, code, exitedMessage(code))

closeResult(rec, code) ==
  IF rec.hasInteractivePrompt
  THEN resolve(rec, FALSE, code, "withings-sync requires re/authentication: please run interactively")
  ELSE IF code = 0 THEN resolve(rec, TRUE, code, "null")
  ELSE resolve(rec, FALSE, code, exitedMessage(code))

\* The child process exits: the close event.
cliClose(o, code) ==
  /\ ops[o].kind = "cron" /\ ops[o].proc = "alive"
  /\ code \in ExitCodes(ops[o])
  /\ ops' = [ops EXCEPT ![o] = IF @.pc = "finished" THEN IdleOp
                               ELSE closeResult(clearTimeout([@ EXCEPT !.proc = "dead"]), code)]
  /\ UNCHANGED <<runs, runningProfileIds, profiles, now, boot, orphans, stimuli>>
  /\ UNCHANGED <<sessVars, schedVars, pure, houseVars>>

\* The error event of a failed spawn.
cliError(o) ==
  /\ ops[o].kind = "cron" /\ ops[o].proc = "failed" /\ ops[o].pc = "executeCli"
  /\ ops' = [ops EXCEPT ![o] = resolve(clearTimeout([@ EXCEPT !.proc = "dead"]),
                                       FALSE, Null, "Process error")]
  /\ UNCHANGED <<runs, runningProfileIds, profiles, now, boot, orphans, stimuli>>
  /\ UNCHANGED <<sessVars, schedVars, pure, houseVars>>

---------------------------------------------------------------------------
(* WithingsSyncRunner.startInteractiveRun (interactive runs)                *)

\* The child is spawned and the status frame 'Process started' is sent; the
\* process is stored in runningProcesses, the runner and the handler return, and
\* the message and close listeners are registered.
spawnInteractiveProcess(o) ==
  LET c == opConn[o]
  IN /\ ops[o].kind = "ws" /\ spawnStep(o, FALSE, "interactive")
     /\ IF ops'[o].pc = "interactive"
        THEN /\ conns' = [conns EXCEPT ![c] = [send(@, "Process started") EXCEPT !.listening = TRUE]]
             /\ runningProcesses' = [runningProcesses EXCEPT ![ops[o].run] = o]
             /\ UNCHANGED <<activeSessions, opConn, stdin, schedVars, pure, houseVars>>
        ELSE UNCHANGED <<sessVars, schedVars, pure, houseVars>>

\* The close handler: the entry of the run leaves runningProcesses; succeedRun
\* for code 0, failRun otherwise.
interactiveClose(o, code) ==
  /\ ops[o].kind = "ws" /\ ops[o].proc = "alive" /\ ops[o].pc = "interactive"
  /\ code \in ExitCodes(ops[o])
  /\ ops' = [ops EXCEPT ![o] = resolve([@ EXCEPT !.proc = "dead"], code = 0, code,
                                       IF code = 0 THEN "null" ELSE exitedMessage(code))]
  /\ runningProcesses' = [runningProcesses EXCEPT ![ops[o].run] = 0]
  /\ stdin' = [stdin EXCEPT ![o] = <<>>]
  /\ UNCHANGED <<runs, runningProfileIds, profiles, now, boot, orphans, stimuli>>
  /\ UNCHANGED <<conns, activeSessions, opConn, schedVars, pure, houseVars>>

\* The error handler: the entry of the run leaves runningProcesses; failRun.
interactiveError(o) ==
  /\ ops[o].kind = "ws" /\ ops[o].proc = "failed" /\ ops[o].pc = "interactive"
  /\ ops' = [ops EXCEPT ![o] = resolve([@ EXCEPT !.proc = "dead"], FALSE, Null, "Process error")]
  /\ runningProcesses' = [runningProcesses EXCEPT ![ops[o].run] = 0]
  /\ stdin' = [stdin EXCEPT ![o] = <<>>]
  /\ UNCHANGED <<runs, runningProfileIds, profiles, now, boot, orphans, stimuli>>
  /\ UNCHANGED <<conns, activeSessions, opConn, schedVars, pure, houseVars>>

\* The frame the close and error handlers send after succeedRun / failRun.
statusFrame(rec) ==
  IF rec.success THEN "completed with exit code 0"
  ELSE CASE rec.errorMessage = "Process error" -> "Process error"
         [] rec.exitCode = 1 -> "failed with exit code 1"
         [] OTHER -> "failed with exit code null"

\* succeedRun / failRun of the close or error handler has returned: the frame is
\* sent through the output callback.
interactiveStatus(o) ==
  LET c == opConn[o]
  IN /\ ops[o].pc = "outputCallback"
     /\ ops' = [ops EXCEPT ![o] = IdleOp]
     /\ conns' = [conns EXCEPT ![c] = send(@, statusFrame(ops[o]))]
     /\ opConn' = [opConn EXCEPT ![o] = 0]
     /\ UNCHANGED <<runs, runningProfileIds, profiles, now, boot, orphans, stimuli>>
     /\ UNCHANGED <<activeSessions, runningProcesses, stdin, schedVars, pure, houseVars>>

---------------------------------------------------------------------------
(* RunService.completeRun, called through succeedRun / failRun with         *)
(* exitCode || 0 and exitCode || undefined.                                 *)

completeRun(o) ==
  LET rec == ops[o]
  IN /\ rec.pc = "completeRun"
     /\ runningProfileIds' = runningProfileIds \ {rec.profile}
     /\ runs' = IF rec.success
                THEN completeRunUpdate(runs, rec.run, "SUCCESS", 0, "null", now)
                ELSE completeRunUpdate(runs, rec.run, "FAILED",
                                       IF rec.exitCode = 0 THEN Null ELSE rec.exitCode,
                                       rec.errorMessage, now)
     /\ ops' = [ops EXCEPT ![o] = IF rec.kind = "ws" THEN [rec EXCEPT !.pc = "outputCallback"]
                                  ELSE Release(rec)]
     /\ UNCHANGED <<profiles, now, boot, orphans, stimuli>>
     /\ UNCHANGED <<sessVars, schedVars, pure, houseVars>>

---------------------------------------------------------------------------
(* WebSocketHandler: events of an accepted connection.  Text is a sequence  *)
(* of characters.                                                           *)

Quote == "\""

PrefixType == <<"{", Quote, "t", "y", "p", "e", Quote, ":", Quote>>

MidData == <<Quote, ",", Quote, "d", "a", "t", "a", Quote, ":", Quote>>

Suffix == <<Quote, "}">>

stdinType == <<"s", "t", "d", "i", "n">>

\* The frames a client sends: a stdin frame, plain text, a bare code, a frame of
\* another type.
Messages ==
  { PrefixType \o stdinType \o MidData \o <<"y">> \o Suffix,
    <<"n">>,
    <<"4", "2">>,
    PrefixType \o <<"p", "i", "n", "g">> \o Suffix }

StartsWith(s, t) == Len(s) >= Len(t) /\ SubSeq(s, 1, Len(t)) = t

Drop(s, n) == SubSeq(s, n + 1, Len(s))

IsDigit(c) == c \in {"0", "1", "2", "3", "4", "5", "6", "7", "8", "9"}

RECURSIVE QuoteAt(_, _)
QuoteAt(s, i) == IF i > Len(s) THEN 0 ELSE IF s[i] = Quote THEN i ELSE QuoteAt(s, i + 1)

SyntaxError == [threw |-> TRUE, type |-> <<>>, data |-> <<>>]

\* JSON.parse on the texts above: a number without a leading zero, an object
\* {"type":"t"} or {"type":"t","data":"d"}; any other text throws.  A missing
\* property (undefined) is the empty text.
JSONparse(s) ==
  IF s # <<>> /\ (\A i \in 1..Len(s) : IsDigit(s[i])) /\ (Len(s) = 1 \/ s[1] # "0")
  THEN [threw |-> FALSE, type |-> <<>>, data |-> <<>>]
  ELSE IF ~StartsWith(s, PrefixType) THEN SyntaxError
  ELSE LET a == Drop(s, Len(PrefixType))
           q == QuoteAt(a, 1)
       IN IF q = 0 THEN SyntaxError
          ELSE LET t == SubSeq(a, 1, q - 1)
                   b == Drop(a, q - 1)
               IN IF b = Suffix THEN [threw |-> FALSE, type |-> t, data |-> <<>>]
                  ELSE IF ~StartsWith(b, MidData) THEN SyntaxError
                  ELSE LET d == Drop(b, Len(MidData))
                           q2 == QuoteAt(d, 1)
                       IN IF q2 # 0 /\ Drop(d, q2 - 1) = Suffix
                          THEN [threw |-> FALSE, type |-> t, data |-> SubSeq(d, 1, q2 - 1)]
                          ELSE SyntaxError

\* handleClientMessage: the parsed message, or the raw text as a stdin frame
\* when JSON.parse throws.
parsedMessage(message) ==
  LET j == JSONparse(message)
  IN IF j.threw THEN [type |-> stdinType, data |-> message]
     ELSE [type |-> j.type, data |-> j.data]

\* The texts handleClientMessage passes to sendInput: the data of a stdin frame
\* when it is not empty.
forwarded(message) ==
  LET m == parsedMessage(message)
  IN IF m.type = stdinType /\ m.data # <<>> THEN {m.data} ELSE {}

\* What sendInput writes.
stdinLineBare(input) == input

stdinLine(input) == input \o <<"\n">>

\* WithingsSyncRunner.sendInput: input and a newline to the stdin of the process
\* stored for the run; nothing when no process is stored.
sendInput(runId, input) ==
  LET proc == runningProcesses[runId]
  IN IF proc # 0 /\ ops[proc].proc = "alive"
     THEN [stdin EXCEPT ![proc] = Append(@, stdinLine(input))]
     ELSE stdin

\* forwarded over the frames, computed once.
Forwarded == [message \in Messages |-> forwarded(message)]

\* A message event of connection c: handleClientMessage.
clientMessage(c, message) ==
  LET sid == conns[c].run
  IN /\ conns[c].state = "open" /\ conns[c].listening /\ Stimulus
     /\ stdin' = IF activeSessions[sid] = 0 \/ Forwarded[message] = {} THEN stdin
                 ELSE sendInput(sid, CHOOSE d \in Forwarded[message] : TRUE)
     /\ UNCHANGED <<runs, runningProfileIds, profiles, now, ops, boot, orphans>>
     /\ UNCHANGED <<conns, activeSessions, opConn, runningProcesses, schedVars, pure, houseVars>>

\* connection.on('close', ...) has been reached.
closeListenerNever(cn) == FALSE

closeListener(cn) == cn.listening

\* The client closes connection c.  With the close listener registered:
\* handleConnectionClose clears the keepalive interval of the session stored
\* under the session id, calls detachRun and deletes the session.
clientClose(c) ==
  LET sid == conns[c].run
      s == activeSessions[sid]
      closed == [conns EXCEPT ![c].state = "closed", ![c].frame = "null"]
  IN /\ conns[c].state = "open" /\ Stimulus
     /\ IF closeListener(conns[c]) /\ s # 0
        THEN /\ conns' = [closed EXCEPT ![s].pingInterval = FALSE]
             /\ runningProcesses' = [runningProcesses EXCEPT ![sid] = 0]
             /\ activeSessions' = [activeSessions EXCEPT ![sid] = 0]
        ELSE /\ conns' = closed
             /\ UNCHANGED <<runningProcesses, activeSessions>>
     /\ UNCHANGED <<runs, runningProfileIds, profiles, now, ops, boot, orphans>>
     /\ UNCHANGED <<opConn, stdin, schedVars, pure, houseVars>>

\* The keepalive interval of a connection that is no longer open clears itself.
pingInterval(c) ==
  /\ conns[c].pingInterval /\ conns[c].state # "open"
  /\ conns' = [conns EXCEPT ![c].pingInterval = FALSE]
  /\ UNCHANGED <<runs, runningProfileIds, profiles, now, ops, boot, orphans, stimuli>>
  /\ UNCHANGED <<activeSessions, opConn, runningProcesses, stdin, schedVars, pure, houseVars>>

---------------------------------------------------------------------------
(* The Scheduler (SchedulerService) and the timer facility (node-schedule). *)
(* A cron expression is its text; a job of the facility is a record of      *)
(* `timers`: "free" = not created yet, "live" = scheduled, "cancelled".     *)

\* Texts a caller passes as cronExpression: a fixed daily time, the random
\* placeholder form, and a minute out of range.
DailyCron == <<"0", " ", "3", " ", "*", " ", "*", " ", "*">>
RandomCron == <<"?", " ", "?", " ", "*", " ", "*", " ", "*">>
BadMinuteCron == <<"6", "1", " ", "3", " ", "*", " ", "*", " ", "*">>
CronExpressions == {DailyCron, RandomCron, BadMinuteCron}

\* Values randomMinute() and randomHour() can return: the ends of their ranges.
RandomMinutes == {0, 59}
RandomHours == {0, 23}

DigitChars == <<"0", "1", "2", "3", "4", "5", "6", "7", "8", "9">>

\* Number.prototype.toString of a natural number.
RECURSIVE toString(_)
toString(n) ==
  IF n < 10 THEN <<DigitChars[n + 1]>>
  ELSE toString(n \div 10) \o <<DigitChars[(n % 10) + 1]>>

\* The number a text of digits denotes.
RECURSIVE valueOf(_)
valueOf(f) ==
  IF Len(f) = 0 THEN 0
  ELSE 10 * valueOf(SubSeq(f, 1, Len(f) - 1))
         + (CHOOSE d \in 0..9 : DigitChars[d + 1] = f[Len(f)])

\* String.prototype.split(' ').
RECURSIVE split(_)
split(s) ==
  IF \A i \in 1..Len(s) : s[i] # " " THEN <<s>>
  ELSE LET i == CHOOSE i \in 1..Len(s) : s[i] = " " /\ \A j \in 1..(i - 1) : s[j] # " "
       IN <<SubSeq(s, 1, i - 1)>> \o split(Drop(s, i))

\* Array.prototype.join(' ').
RECURSIVE join(_)
join(parts) ==
  IF Len(parts) = 0 THEN <<>>
  ELSE IF Len(parts) = 1 THEN parts[1]
  ELSE parts[1] \o <<" ">> \o join(Tail(parts))

\* cronExpression.replace(/\?/g, '0').
replaceQuestionMarks(s) == [i \in 1..Len(s) |-> IF s[i] = "?" THEN "0" ELSE s[i]]

\* The ranges of the five fields of a cron expression: minute, hour, day of
\* month, month, day of week.
FieldMin == <<0, 0, 1, 1, 0>>
FieldMax == <<59, 23, 31, 12, 7>>

\* The timer facility can parse the text as a five-field cron expression.
cronParses(s) ==
  LET parts == split(s)
  IN /\ Len(parts) = 5
     /\ \A i \in 1..5 :
          \/ parts[i] \in {<<"*">>, <<"?">>}
          \/ /\ Len(parts[i]) >= 1
             /\ \A j \in 1..Len(parts[i]) : IsDigit(parts[i][j])
             /\ valueOf(parts[i]) >= FieldMin[i]
             /\ valueOf(parts[i]) <= FieldMax[i]

FreeTimers(tm) == {j \in TimerIds : tm[j].state = "free"}

\* schedule.scheduleJob(rule, callback) on the facility state tm: a new live job,
\* or null (job 0) for a rule it cannot parse; it does not throw.
scheduleJob(tm, rule, callback) ==
  IF cronParses(rule)
  THEN LET j == CHOOSE j \in FreeTimers(tm) : \A q \in FreeTimers(tm) : j <= q
       IN [threw |-> FALSE, job |-> j,
           timers |-> [tm EXCEPT ![j] = [state |-> "live", callback |-> callback, rule |-> rule]]]
  ELSE [threw |-> FALSE, job |-> 0, timers |-> tm]

\* isValidCronExpression: false only when scheduleJob throws; the job it
\* creates is left in the facility.
isValidCronExpression(tm, cronExpression) ==
  LET r == scheduleJob(tm, replaceQuestionMarks(cronExpression), "noop")
  IN [valid |-> ~r.threw, timers |-> r.timers]

\* resolveRandomPlaceholders replacing every '?' field.
resolveEveryPlaceholder(cronExpression, minute, hour) ==
  LET parts == split(cronExpression)
      resolved == [i \in 1..Len(parts) |->
                     IF parts[i] = <<"?">> THEN toString(IF i = 2 THEN hour ELSE minute)
                     ELSE parts[i]]
  IN join(resolved)

\* resolveRandomPlaceholders, with the two random draws as arguments.
resolveRandomPlaceholders(cronExpression, minute, hour) ==
  LET parts == split(cronExpression)
      resolved == [i \in 1..Len(parts) |->
                     IF i = 1 /\ parts[i] = <<"?">> THEN toString(minute)
                     ELSE IF i = 2 /\ parts[i] = <<"?">> THEN toString(hour)
                     ELSE parts[i]]
  IN join(resolved)

\* unscheduleProfile without job.cancel().
unscheduledNoCancel(st, p) ==
  IF st.scheduledJobs[p] # 0
  THEN [scheduledJobs |-> [st.scheduledJobs EXCEPT ![p] = 0],
        resolvedCronExpressions |-> [st.resolvedCronExpressions EXCEPT ![p] = <<>>],
        timers |-> st.timers]
  ELSE st

\* The scheduler state after unscheduleProfile(p) on the state st.
unscheduled(st, p) ==
  IF st.scheduledJobs[p] # 0
  THEN [scheduledJobs |-> [st.scheduledJobs EXCEPT ![p] = 0],
        resolvedCronExpressions |-> [st.resolvedCronExpressions EXCEPT ![p] = <<>>],
        timers |-> [st.timers EXCEPT ![st.scheduledJobs[p]].state = "cancelled"]]
  ELSE st

schedulerState ==
  [scheduledJobs |-> scheduledJobs, resolvedCronExpressions |-> resolvedCronExpressions,
   timers |-> timers]

\* The requests to the scheduler (route calls, interval ticks, signals) are
\* capped apart from the other inputs.
Request == stimuli < MaxRequests

NewCall(k) == calls[k].pc = "idle" /\ \A q \in CallIds : q < k => calls[q].pc # "idle"

PendingCalls == {k \in CallIds : calls[k].pc # "idle"}

NewPass(ps) == passes[ps].pc = "idle" /\ \A q \in PassIds : q < ps => passes[q].pc # "idle"

\* The entries of their lists that the passes of S have not begun yet.
RECURSIVE RemainingItems(_)
RemainingItems(S) ==
  IF S = {} THEN 0
  ELSE LET ps == CHOOSE ps \in S : TRUE
       IN (IF passes[ps].pc = "idle" THEN 0 ELSE Len(passes[ps].list) - passes[ps].i)
            + RemainingItems(S \ {ps})

\* The facility has room for n more jobs besides those the calls and passes in
\* flight can still create.
Room(n) ==
  Cardinality(FreeTimers(timers)) >= Cardinality(PendingCalls) + 2 * RemainingItems(PassIds) + n

\* scheduleProfile(p, cronExpression) up to its await of getProfileById, on the
\* facility state tm: the validation, then the query is issued.
begun(tm, p, cronExpression, pass) ==
  LET v == isValidCronExpression(tm, cronExpression)
  IN [timers |-> v.timers,
      call |-> IF v.valid
               THEN [pc |-> "getProfileById", profileId |-> p,
                     cronExpression |-> cronExpression,
                     profile |-> profiles[p], threw |-> "null", pass |-> pass]
               ELSE [NoCall EXCEPT !.profileId = p, !.cronExpression = cronExpression,
                                   !.threw = "Invalid cron expression", !.pass = pass]]

\* The text scheduleProfile stores in resolvedCronExpressions.
recordedOriginal(cronExpression, resolvedCronExpression) == cronExpression

recorded(cronExpression, resolvedCronExpression) == resolvedCronExpression

\* scheduleProfile from the result of getProfileById to its return or throw, on
\* the scheduler state st, with the two random draws as arguments.
finished(st, call, minute, hour) ==
  LET p == call.profileId
  IN IF call.profile = "missing" THEN [state |-> st, threw |-> "Profile not found"]
     ELSE IF call.profile = "disabled" THEN [state |-> st, threw |-> "Profile is disabled"]
     ELSE LET un == unscheduled(st, p)
              resolvedCronExpression ==
                resolveRandomPlaceholders(call.cronExpression, minute, hour)
              r == scheduleJob(un.timers, resolvedCronExpression, p)
              rec == [un.resolvedCronExpressions EXCEPT
                        ![p] = recorded(call.cronExpression, resolvedCronExpression)]
          IN IF r.job = 0
             THEN [state |-> [scheduledJobs |-> un.scheduledJobs,
                              resolvedCronExpressions |-> rec, timers |-> r.timers],
                   threw |-> "Failed to schedule job"]
             ELSE [state |-> [scheduledJobs |-> [un.scheduledJobs EXCEPT ![p] = r.job],
                              resolvedCronExpressions |-> rec, timers |-> r.timers],
                   threw |-> "null"]

\* What the catch around scheduleProfile in refreshSchedules lets through.
caughtRethrown(message) == message

caught(message) == "null"

\* The loop of refreshSchedules from entry i of the list on, on the facility
\* state tm: it runs until a scheduleProfile awaits or the list is done.
RECURSIVE refreshLoop(_, _, _, _, _)
refreshLoop(tm, ps, list, i, logged) ==
  IF i >= Len(list) THEN [timers |-> tm, i |-> i, began |-> FALSE, call |-> NoCall,
                          threw |-> "null", logged |-> logged]
  ELSE IF list[i + 1].scheduleCron = <<>> THEN refreshLoop(tm, ps, list, i + 1, logged)
  ELSE LET b == begun(tm, list[i + 1].id, list[i + 1].scheduleCron, ps)
       IN IF b.call.pc # "idle"
          THEN [timers |-> b.timers, i |-> i + 1, began |-> TRUE, call |-> b.call,
                threw |-> "null", logged |-> logged]
          ELSE IF caught(b.call.threw) # "null"
          THEN [timers |-> b.timers, i |-> i + 1, began |-> FALSE, call |-> b.call,
                threw |-> caught(b.call.threw), logged |-> logged]
          ELSE refreshLoop(b.timers, ps, list, i + 1, logged \cup {list[i + 1].id})

\* The record of pass ps after the loop result l.
passAfter(ps, l) ==
  IF l.began THEN [passes[ps] EXCEPT !.pc = "scheduleProfile", !.i = l.i, !.logged = l.logged]
  ELSE [passes[ps] EXCEPT !.pc = "idle", !.i = l.i, !.logged = l.logged, !.threw = l.threw]

\* scheduleProfile(profileId, cronExpression) called by a profile route.
scheduleProfile(p, cronExpression) ==
  \E k \in CallIds :
    LET b == begun(timers, p, cronExpression, 0)
    IN /\ boot = "listening" /\ Stimulus /\ Request /\ NewCall(k) /\ Room(2)
       /\ timers' = b.timers
       /\ calls' = [calls EXCEPT ![k] = b.call]
       /\ UNCHANGED <<scheduledJobs, resolvedCronExpressions, scheduleCron, scheduler, passes>>
       /\ UNCHANGED <<coreVars, profiles, boot, pure, houseVars>>

\* The continuation of scheduleProfile after getProfileById; for a call made by
\* refreshSchedules also the catch and the loop up to the next await.
scheduleProfileResume(k) ==
  \E minute \in RandomMinutes, hour \in RandomHours :
    LET f == finished(schedulerState, calls[k], minute, hour)
        ps == calls[k].pass
        ended == [calls[k] EXCEPT !.pc = "idle", !.threw = f.threw]
    IN /\ calls[k].pc = "getProfileById"
       /\ scheduledJobs' = f.state.scheduledJobs
       /\ resolvedCronExpressions' = f.state.resolvedCronExpressions
       /\ IF ps = 0
          THEN /\ timers' = f.state.timers
               /\ calls' = [calls EXCEPT ![k] = ended]
               /\ UNCHANGED passes
          ELSE IF caught(f.threw) # "null"
          THEN /\ timers' = f.state.timers
               /\ calls' = [calls EXCEPT ![k] = ended]
               /\ passes' = [passes EXCEPT ![ps].pc = "idle", ![ps].threw = caught(f.threw)]
          ELSE LET logged == IF f.threw = "null" THEN passes[ps].logged
                             ELSE passes[ps].logged \cup {calls[k].profileId}
                   l == refreshLoop(f.state.timers, ps, passes[ps].list, passes[ps].i, logged)
               IN /\ timers' = l.timers
                  /\ calls' = [calls EXCEPT ![k] = IF l.began THEN l.call ELSE ended]
                  /\ passes' = [passes EXCEPT ![ps] = passAfter(ps, l)]
       /\ UNCHANGED <<scheduleCron, scheduler>>
       /\ UNCHANGED <<coreVars, profiles, boot, stimuli, pure, houseVars>>

\* unscheduleProfile(profileId), called by the profile routes.
unscheduleProfile(p) ==
  LET st == unscheduled(schedulerState, p)
  IN /\ boot = "listening" /\ Stimulus /\ Request
     /\ scheduledJobs' = st.scheduledJobs
     /\ resolvedCronExpressions' = st.resolvedCronExpressions
     /\ timers' = st.timers
     /\ UNCHANGED <<calls, scheduleCron, scheduler, passes>>
     /\ UNCHANGED <<coreVars, profiles, boot, pure, houseVars>>

\* The rows getScheduledProfiles selects, and the orders findMany can return
\* them in.
ScheduledProfiles == {p \in AllProfiles : profiles[p] = "enabled" /\ scheduleCron[p] # <<>>}

Orderings(S) ==
  {seq \in [1..Cardinality(S) -> S] :
     \A a, b \in 1..Cardinality(S) : a # b => seq[a] # seq[b]}

scheduledProfilesList(order) ==
  [i \in 1..Len(order) |-> [id |-> order[i], scheduleCron |-> scheduleCron[order[i]]]]

\* A pass that cancels nothing before it schedules.
unscheduledAllNone(st, S) == st

RECURSIVE unscheduledAll(_, _)
unscheduledAll(st, S) ==
  IF S = {} THEN st
  ELSE LET p == CHOOSE p \in S : TRUE
       IN unscheduledAll(unscheduled(st, p), S \ {p})

\* refreshSchedules, called by the reconciliation interval or the refresh
\* route, up to its await of getScheduledProfiles.
refreshSchedules ==
  \E ps \in PassIds, order \in Orderings(ScheduledProfiles) :
    /\ boot = "listening" /\ Stimulus /\ Request /\ NewPass(ps) /\ Room(2 * Len(order))
    /\ passes' = [passes EXCEPT ![ps] = [NoPass EXCEPT !.pc = "getScheduledProfiles",
                                                       !.list = scheduledProfilesList(order),
                                                       !.caller = "request",
                                                       !.inputs = stimuli + 1,
                                                       !.alone = PendingCalls = {}]]
    /\ UNCHANGED <<scheduledJobs, resolvedCronExpressions, timers, calls, scheduleCron, scheduler>>
    /\ UNCHANGED <<coreVars, profiles, boot, pure, houseVars>>

\* refreshSchedules from the result of getScheduledProfiles on: every job is
\* unscheduled, then the loop runs up to the first await.
refreshSchedulesResume(ps) ==
  \E k \in CallIds :
    LET un == unscheduledAll(schedulerState, AllProfiles)
        l == refreshLoop(un.timers, ps, passes[ps].list, 0, {})
    IN /\ passes[ps].pc = "getScheduledProfiles" /\ NewCall(k)
       /\ scheduledJobs' = un.scheduledJobs
       /\ resolvedCronExpressions' = un.resolvedCronExpressions
       /\ timers' = l.timers
       /\ calls' = [calls EXCEPT ![k] = IF l.began THEN l.call ELSE @]
       /\ passes' = [passes EXCEPT ![ps] = passAfter(ps, l)]
       /\ UNCHANGED <<scheduleCron, scheduler>>
       /\ UNCHANGED <<coreVars, profiles, boot, stimuli, pure, houseVars>>

\* initialize after cleanupOrphanedRuns: refreshSchedules up to its await.
initialize ==
  \E ps \in PassIds, order \in Orderings(ScheduledProfiles) :
    /\ boot = "getRunsByStatus" /\ orphans = {} /\ NewPass(ps) /\ Room(2 * Len(order) + 1)
    /\ boot' = "refreshSchedules"
    /\ passes' = [passes EXCEPT ![ps] = [NoPass EXCEPT !.pc = "getScheduledProfiles",
                                                       !.list = scheduledProfilesList(order),
                                                       !.caller = "initialize",
                                                       !.inputs = stimuli,
                                                       !.alone = PendingCalls = {}]]
    /\ UNCHANGED <<scheduledJobs, resolvedCronExpressions, timers, calls, scheduleCron, scheduler>>
    /\ UNCHANGED <<coreVars, profiles, stimuli, pure, houseVars>>

\* The draws considered for the weekly cleanup job.
CleanupMinutes == {30}
CleanupHours == {4}

\* randomWeeklyCronOnDay, with the two random draws as arguments.
randomWeeklyCronOnDay(dayOfWeek, minute, hour) ==
  join(<<toString(minute), toString(hour), <<"*">>, <<"*">>, toString(dayOfWeek)>>)

\* initialize after its refreshSchedules: startReconciliationLoop,
\* scheduleWeeklyCleanup, isRunning; then app.ts listens.  Nothing else runs
\* between the end of the pass and this.
initializeFinish ==
  \E minute \in CleanupMinutes, hour \in CleanupHours :
    LET r == scheduleJob(timers, randomWeeklyCronOnDay(0, minute, hour), "cleanupOldRuns")
    IN /\ boot = "refreshSchedules"
       /\ \A ps \in PassIds : passes[ps].pc = "idle" /\ passes[ps].threw = "null"
       /\ boot' = "listening"
       /\ timers' = r.timers
       /\ scheduler' = [isRunning |-> TRUE, reconciliationInterval |-> TRUE,
                        cleanupJob |-> r.job]
       /\ UNCHANGED <<scheduledJobs, resolvedCronExpressions, calls, scheduleCron, passes>>
       /\ UNCHANGED <<coreVars, profiles, stimuli, pure, houseVars>>

\* shutdown(), called by gracefulShutdown.
shutdown ==
  /\ boot = "listening" /\ Stimulus /\ Request
  /\ scheduler' = [isRunning |-> FALSE, reconciliationInterval |-> FALSE, cleanupJob |-> 0]
  /\ timers' = [j \in TimerIds |->
                  IF j = scheduler.cleanupJob \/ \E p \in AllProfiles : scheduledJobs[p] = j
                  THEN [timers[j] EXCEPT !.state = "cancelled"] ELSE timers[j]]
  /\ scheduledJobs' = [p \in AllProfiles |-> 0]
  /\ UNCHANGED <<resolvedCronExpressions, calls, scheduleCron, passes>>
  /\ UNCHANGED <<coreVars, profiles, boot, pure, houseVars>>

\* The job j of a profile fires: its callback calls executeScheduledRun.
fire(j) ==
  /\ timers[j].state = "live" /\ timers[j].callback \in AllProfiles
  /\ executeScheduledRun(timers[j].callback)

---------------------------------------------------------------------------
Tick ==
  /\ boot = "listening" /\ Stimulus
  /\ now < BootTime + MaxTicks * TickMin
  /\ now' = now + TickMin
  /\ UNCHANGED <<runs, runningProfileIds, profiles, ops, boot, orphans>>
  /\ UNCHANGED <<sessVars, schedVars, pure, houseVars>>

\* Spec does not follow the bookkeeping of the scheduler: the maps, the jobs
\* and the calls stay empty, and the schedule column is not read.
Init ==
  /\ InitCore
  /\ scheduledJobs = <<>> /\ resolvedCronExpressions = <<>> /\ timers = <<>>
  /\ calls = <<>> /\ passes = <<>> /\ scheduleCron = <<>>

Next ==
  \/ cleanupOrphanedRuns
  \/ orphanFailRun
  \/ listen
  \/ \E p \in Profiles : disableProfile(p)
  \/ \E p \in Profiles : deleteProfile(p)
  \/ \E p \in Profiles : executeScheduledRun(p)
  \/ \E o \in OpIds : isProfileRunning(o)
  \/ \E o \in OpIds : esrGetProfile(o)
  \/ \E o \in OpIds : esrCreateRun(o)
  \/ \E p \in Profiles : runInteractive(p)
  \/ \E o \in OpIds : runInteractiveCreate(o)
  \/ \E r \in RunIds : cancelRun(r)
  \/ \E o \in OpIds : cancelRunWrite(o)
  \/ \E o \in OpIds : cancelRunRelease(o)
  \/ \E r \in RunIds : handleWebSocketConnection(r)
  \/ \E o \in OpIds : wsValidated(o)
  \/ \E o \in OpIds : wsStartInteractiveRun(o)
  \/ \E o \in OpIds : wsSetupFailed(o)
  \/ \E o \in OpIds : startRun(o)
  \/ \E o \in OpIds : runnerCatch(o)
  \/ \E o \in OpIds : executeCli(o)
  \/ \E o \in OpIds, text \in Chunks : cliData(o, text)
  \/ \E o \in OpIds : cliTimeout(o)
  \/ \E o \in OpIds, code \in {0, 1, Null} : cliClose(o, code)
  \/ \E o \in OpIds : cliError(o)
  \/ \E o \in OpIds : spawnInteractiveProcess(o)
  \/ \E o \in OpIds, code \in {0, 1, Null} : interactiveClose(o, code)
  \/ \E o \in OpIds : interactiveError(o)
  \/ \E o \in OpIds : interactiveStatus(o)
  \/ \E c \in ConnIds, message \in Messages : clientMessage(c, message)
  \/ \E c \in ConnIds : clientClose(c)
  \/ \E c \in ConnIds : pingInterval(c)
  \/ \E o \in OpIds : completeRun(o)
  \/ Tick

Spec == Init /\ [][Next]_vars

\* The scheduler: its part of the boot, the profile table, the scheduler
\* operations and the firing of profile jobs.  The
\* database is new (no runs); the stored schedules are any of StoredCrons.
StoredCrons == {<<>>, DailyCron, RandomCron, BadMinuteCron}

SchedulerInit ==
  /\ InitCore /\ InitScheduler /\ runs = [r \in RunIds |-> NoRow]
  /\ scheduleCron \in [AllProfiles -> StoredCrons]

SchedulerNext ==
  \/ cleanupOrphanedRuns
  \/ initialize
  \/ initializeFinish
  \/ \E p \in AllProfiles : disableProfile(p)
  \/ \E p \in AllProfiles : deleteProfile(p)
  \/ \E p \in AllProfiles, cronExpression \in CronExpressions : scheduleProfile(p, cronExpression)
  \/ \E k \in CallIds : scheduleProfileResume(k)
  \/ \E p \in AllProfiles : unscheduleProfile(p)
  \/ refreshSchedules
  \/ \E ps \in PassIds : refreshSchedulesResume(ps)
  \/ shutdown
  \/ \E j \in TimerIds : fire(j)

SchedulerSpec == SchedulerInit /\ [][SchedulerNext]_vars

---------------------------------------------------------------------------
(* Functions checked on their own (specification PureSpec): one            *)
(* application, on any of the inputs, is kept in `pure`.                   *)

\* randomInt(min, max), with Math.random() = u / RandomUnits.
randomInt(min, max, u) == (u * (max - min + 1)) \div RandomUnits + min

randomMinute(u) == randomInt(0, 59, u)

randomHour(u) == randomInt(0, 23, u)

\* Five-field expressions given to resolveRandomPlaceholders.
PureCrons ==
  {DailyCron, RandomCron,
   <<"?", " ", "3", " ", "*", " ", "*", " ", "*">>,
   <<"1", "5", " ", "?", " ", "*", " ", "*", " ", "1">>,
   <<"?", " ", "?", " ", "?", " ", "*", " ", "?">>}

\* resolveRandomPlaceholders is applied to an expression.
resolvePlaceholders ==
  \E cronExpression \in PureCrons, um, uh \in 0..(RandomUnits - 1) :
    /\ pure = NoPure
    /\ pure' = [fn |-> "resolveRandomPlaceholders",
                cronExpression |-> cronExpression,
                minute |-> randomMinute(um), hour |-> randomHour(uh),
                resolved |-> resolveRandomPlaceholders(cronExpression,
                               randomMinute(um), randomHour(uh))]
    /\ UNCHANGED <<coreVars, profiles, boot, stimuli, schedVars, houseVars>>

CLI_ARGS ==
  [CONFIG_FOLDER |-> "--config-folder", FEATURES |-> "--features",
   GARMIN_PASSWORD |-> "--garmin-password", GARMIN_USERNAME |-> "--garmin-username",
   SILENT |-> "--silent", TRAINERROAD_PASSWORD |-> "--trainerroad-password",
   TRAINERROAD_USERNAME |-> "--trainerroad-username", VERBOSE |-> "--verbose"]

\* Stored passwords and cryptoService.decrypt on them.
Encrypted == {"iv1:tag1:c1", "iv2:tag2:c2", "iv3:tag3:c3", "iv4:tag4:c4"}

decrypt(passwordEncrypted) ==
  CASE passwordEncrypted = "iv1:tag1:c1" -> "hunter2"
    [] passwordEncrypted = "iv2:tag2:c2" -> "correct horse"
    [] passwordEncrypted = "iv3:tag3:c3" -> "--garmin-password"
    [] passwordEncrypted = "iv4:tag4:c4" -> "--trainerroad-password"

\* The service account of a profile, if any.
Accounts == {NoAccount} \cup [username : {"alice"}, passwordEncrypted : Encrypted]

CliProfiles ==
  [withingsConfigDir : {"/data/p1"}, garminAccount : Accounts,
   trainerroadAccount : Accounts, enableBloodPressure : BOOLEAN]

LogLevels == {"debug", "info", "warn", "error"}

buildCliArgs(profile, logLevel) ==
  <<CLI_ARGS.CONFIG_FOLDER, profile.withingsConfigDir>>
  \o (IF profile.garminAccount # NoAccount
      THEN <<CLI_ARGS.GARMIN_USERNAME, profile.garminAccount.username,
             CLI_ARGS.GARMIN_PASSWORD, decrypt(profile.garminAccount.passwordEncrypted)>>
      ELSE <<>>)
  \o (IF profile.trainerroadAccount # NoAccount
      THEN <<CLI_ARGS.TRAINERROAD_USERNAME, profile.trainerroadAccount.username,
             CLI_ARGS.TRAINERROAD_PASSWORD,
             decrypt(profile.trainerroadAccount.passwordEncrypted)>>
      ELSE <<>>)
  \o (IF profile.enableBloodPressure THEN <<CLI_ARGS.FEATURES, "BLOOD_PRESSURE">> ELSE <<>>)
  \o (IF logLevel = "debug" THEN <<CLI_ARGS.VERBOSE>>
      ELSE IF logLevel \in {"warn", "error"} THEN <<CLI_ARGS.SILENT>>
      ELSE <<>>)

\* The arguments as they are logged.
safeArgs(args) ==
  [index \in 1..Len(args) |->
     IF index > 1 /\ args[index - 1] \in {CLI_ARGS.GARMIN_PASSWORD, CLI_ARGS.TRAINERROAD_PASSWORD}
     THEN "***MASKED***"
     ELSE args[index]]

\* runSync or startInteractiveRun builds the arguments and logs the command.
logCommand ==
  \E profile \in CliProfiles, logLevel \in LogLevels :
    /\ pure = NoPure
    /\ pure' = [fn |-> "buildCliArgs", profile |-> profile, logLevel |-> logLevel,
                args |-> buildCliArgs(profile, logLevel),
                safeArgs |-> safeArgs(buildCliArgs(profile, logLevel))]
    /\ UNCHANGED <<coreVars, profiles, boot, stimuli, schedVars, houseVars>>

PureInit ==
  /\ InitCore /\ InitScheduler /\ runs = [r \in RunIds |-> NoRow]
  /\ scheduleCron = [p \in AllProfiles |-> DailyCron]

PureNext == resolvePlaceholders \/ logCommand

PureSpec == PureInit /\ [][PureNext]_vars

---------------------------------------------------------------------------
(* Properties.                                                              *)

RunningRuns(p) == {r \in RunIds : runs[r].profile = p /\ runs[r].status = "RUNNING"}

\* C1: in every reachable state of the record store, at most one run of a
\* profile is RUNNING, whatever the interleaving of the operations.
C1_AtMostOneRunningRun == \A p \in Profiles : Cardinality(RunningRuns(p)) <= 1

\* A startRun got past the in-memory guard while another run of the profile was
\* RUNNING, and the unique index refused its update.
C1_Witness ==
  \E o \in OpIds : /\ ops[o].startRes = "dbErr"
                   /\ RunningRuns(ops[o].profile) # {}


AliveProcesses(p) == {o \in OpIds : ops[o].proc = "alive" /\ ops[o].profile = p}

\* C2: at every instant at most one child process of a profile is alive.
C2_AtMostOneProcess == \A p \in Profiles : Cardinality(AliveProcesses(p)) <= 1

\* C3: the status of a run only moves PENDING -> RUNNING -> SUCCESS or FAILED,
\* and a run that is SUCCESS or FAILED keeps its status in every step.
C3_StatusMonotonic ==
  [][\A r \in RunIds :
       /\ runs[r].status \in Terminal => runs'[r].status = runs[r].status
       /\ runs[r].status = "RUNNING" => runs'[r].status \in {"RUNNING", "SUCCESS", "FAILED"}
       /\ runs[r].status = "PENDING" => runs'[r].status \in {"PENDING", "RUNNING", "SUCCESS", "FAILED"}]_vars

\* The step of operation o in which RunService.startRun checks the guard.
StartRunStep(o) ==
  /\ ops[o].pc = "getProfileById"
  /\ ops'[o].pc \in {"startRun", "catch"}
  /\ ops'[o].threw # "Failed to decrypt withingsConsumerSecret"

\* C4: startRun on a PENDING run succeeds when no run of the profile is RUNNING
\* (at first, and again after completeRun), and while a run of the profile is
\* RUNNING, startRun on another run of it fails with "Profile P is already
\* running".
C4_StartRunScenario ==
  [][\A o \in OpIds : StartRunStep(o) =>
       LET r == ops[o].run
           p == ops[o].profile
       IN /\ (RunningRuns(p) = {} /\ runs[r].status = "PENDING")
               => (runs'[r].status = "RUNNING" /\ ops'[o].startRes = "ok")
          /\ RunningRuns(p) \ {r} # {}
               => (ops'[o].threw = "Profile is already running" /\ runs' = runs)]_vars

\* The step of operation o in which cancelRun acts on the run it has read.
CancelStep(o) == ops[o].pc = "cancel.getRunById" /\ ops'[o].pc # "cancel.getRunById"

\* C5: cancelRun takes effect only on a run that is RUNNING: on a run that is
\* PENDING, SUCCESS or FAILED when cancelRun acts, it throws and leaves the
\* record and the guard set unchanged.
C5_CancelOnlyRunning ==
  [][\A o \in OpIds : (CancelStep(o) /\ runs[ops[o].run].status # "RUNNING")
       => (runs' = runs /\ runningProfileIds' = runningProfileIds /\ ops'[o] = IdleOp)]_vars

\* The step of operation o in which the catch block of runSync /
\* startInteractiveRun has called failRun.
CatchStep(o) == ops[o].pc = "catch" /\ ops'[o].pc # "catch"

SpawnStep(o) == ops[o].proc = "none" /\ ops'[o].proc \in {"alive", "failed"}

\* C7: a child process is spawned for a run only after startRun for that run
\* has returned successfully; when startRun throws, the operation goes to its
\* catch block and spawns nothing.
C7_SpawnAfterStartRun ==
  [][\A o \in OpIds :
       /\ SpawnStep(o) => (ops[o].pc = "startRun" /\ ops[o].startRes = "ok")
       /\ (ops[o].pc = "startRun" /\ ops[o].startRes # "ok" /\ ops'[o] # ops[o])
            => (ops'[o].pc = "catch" /\ ops'[o].proc = "none")]_vars

\* One operation has seen its startRun refused and has spawned nothing, while
\* another runs the child process of the run it started.
C7_Witness ==
  \E o, q \in OpIds : /\ ops[o].threw = "Unique constraint failed" /\ ops[o].proc = "none"
                      /\ ops[q].proc = "alive" /\ ops[q].startRes = "ok"

\* A timer fire that has found the profile running, or missing or disabled.
SkipCase(o) ==
  /\ ops[o].kind = "cron"
  /\ \/ ops[o].pc = "isProfileRunning" /\ ops[o].snap = "running"
     \/ ops[o].pc = "esr.getProfileById" /\ ops[o].snap \in {"disabled", "missing"}

\* C8: a timer fire that finds the profile running, or missing or disabled,
\* creates no run and spawns no process, and is dropped: its operation ends and
\* leaves nothing behind.
C8_SkippedFireDropped ==
  [][\A o \in OpIds : (SkipCase(o) /\ ops'[o] # ops[o])
       => (ops'[o] = IdleOp /\ runs' = runs /\ runningProfileIds' = runningProfileIds)]_vars

\* One fire has found the profile running and another has found it disabled.
C8_Witness ==
  \E o, q \in OpIds : /\ ops[o].kind = "cron" /\ ops[o].pc = "isProfileRunning"
                      /\ ops[o].snap = "running"
                      /\ ops[q].kind = "cron" /\ ops[q].pc = "esr.getProfileById"
                      /\ ops[q].snap = "disabled"

\* The step in which cleanupStaleRuns is issued.
StaleSweepStep == \E o \in OpIds : ops[o].kind = "idle" /\ ops'[o].pc = "cleanupStaleRuns"

OlderThan(r, T) == runs[r].status = "RUNNING" /\ now - runs[r].startedAt > T

NotDue(r, T) ==
  \/ runs[r].status \in {"PENDING", "SUCCESS", "FAILED"}
  \/ runs[r].status = "RUNNING" /\ now - runs[r].startedAt < T

\* C9: a sweep with timeout T (cleanupStaleRuns, 10 minutes; cleanupOrphanedRuns,
\* 30 minutes) marks FAILED every run that is RUNNING with age greater than T
\* and changes no run that is PENDING, terminal, or RUNNING with age less
\* than T.
C9_SweepExact ==
  [][/\ StaleSweepStep =>
          \A r \in RunIds :
            /\ OlderThan(r, RUN_TIMEOUT_MIN) => runs'[r].status = "FAILED"
            /\ NotDue(r, RUN_TIMEOUT_MIN) => runs'[r] = runs[r]
     /\ boot = "getRunsByStatus" =>
          \A r \in RunIds : NotDue(r, ORPHAN_TIMEOUT_MIN) => runs'[r] = runs[r]
     /\ (boot = "getRunsByStatus" /\ boot' = "listening") =>
          \A r \in RunIds : ~OlderThan(r, ORPHAN_TIMEOUT_MIN)]_vars

\* The boot sweep has failed an orphaned run, and a later stale sweep has failed
\* a run started by this process.
C9_Witness ==
  \E r, q \in RunIds :
    /\ runs[r].errorMessage = "Run marked as failed due to application restart"
    /\ runs[q].errorMessage = "Run timed out after 10 minutes"

\* The step of operation o in which the promise of executeCli is settled.
ResolveStep(o) == ops[o].kind = "cron" /\ ~ops[o].resolved /\ ops'[o].resolved

\* C10: in an unattended execution, once an output chunk has matched a prompt
\* pattern the process has been sent SIGTERM and the result is the
\* re-authentication failure, whichever of the timeout, close and error events
\* comes next.
C10_PromptMeansReauth ==
  [][\A o \in OpIds : (ResolveStep(o) /\ ops[o].hasInteractivePrompt)
       => /\ ops[o].signalled
          /\ ~ops'[o].success
          /\ ops'[o].errorMessage = "withings-sync requires re/authentication: please run interactively"]_vars


\* The step of operation o in which the timeout callback of executeCli runs.
TimeoutStep(o) ==
  /\ ops[o].kind = "cron" /\ ops[o].timer /\ ~ops'[o].timer
  /\ ops'[o].proc = ops[o].proc

\* The step of operation o in which runSync calls succeedRun / failRun with the
\* result of executeCli.
RunSyncCompleteStep(o) ==
  ops[o].kind = "cron" /\ ops[o].pc = "completeRun" /\ ops'[o].pc # "completeRun"

\* C11: when the timeout elapses and the child process of an unattended run has
\* not closed, SIGTERM is sent, runSync resolves with 'Process timed out after
\* <timeout>ms' and exit code null, and the run is written FAILED; the timer is
\* never armed once the process has closed.
C11_TimeoutFailsRun ==
  [][\A o \in OpIds :
       /\ TimeoutStep(o) =>
            /\ ops[o].proc # "dead" /\ ~ops[o].resolved
            /\ now >= ops[o].spawnedAt + SCHEDULED_TIMEOUT_MIN
            /\ ops[o].proc = "alive" => ops'[o].signalled
            /\ ops'[o].resolved /\ ~ops'[o].success /\ ops'[o].exitCode = Null
            /\ ops'[o].errorMessage = "Process timed out after 600000ms"
       /\ (RunSyncCompleteStep(o) /\ ops[o].errorMessage = "Process timed out after 600000ms") =>
            /\ runs'[ops[o].run].status = "FAILED"
            /\ runs'[ops[o].run].errorMessage = "Process timed out after 600000ms"
            /\ runs'[ops[o].run].exitCode = runs[ops[o].run].exitCode
       /\ ops'[o].proc = "dead" => ~ops'[o].timer]_vars

\* A run is FAILED with the timeout message while its child, signalled, has not
\* exited yet.
C11_Witness ==
  \E r \in RunIds, o \in OpIds :
    /\ runs[r].status = "FAILED" /\ runs[r].mode = "CRON"
    /\ runs[r].errorMessage = "Process timed out after 600000ms"
    /\ ops[o].pc = "finished" /\ ops[o].signalled

\* The step of operation o in which the close handler of executeCli settles the
\* promise of a process that printed no prompt and did not time out.
PlainCloseStep(o) ==
  /\ ops[o].kind = "cron" /\ ops[o].pc = "executeCli"
  /\ ops[o].proc = "alive" /\ ops'[o].proc = "dead"
  /\ ~ops[o].resolved /\ ~ops[o].hasInteractivePrompt

\* C12: an unattended run whose process closes with exit code 0, with no prompt
\* detected and before the timeout, ends with result success and status
\* SUCCESS; a close with another exit code ends with result failure, status
\* FAILED and that exit code on the run.
C12_CloseResult ==
  [][\A o \in OpIds :
       /\ PlainCloseStep(o) =>
            /\ ops'[o].resolved /\ ops'[o].pc = "completeRun"
            /\ ops'[o].success <=> ops'[o].exitCode = 0
       /\ (RunSyncCompleteStep(o) /\ ops[o].proc = "dead" /\ ~ops[o].hasInteractivePrompt) =>
            IF ops[o].exitCode = 0
            THEN /\ runs'[ops[o].run].status = "SUCCESS"
                 /\ runs'[ops[o].run].exitCode = 0
            ELSE /\ runs'[ops[o].run].status = "FAILED"
                 /\ ops[o].exitCode # Null => runs'[ops[o].run].exitCode = ops[o].exitCode]_vars

\* One scheduled run has ended SUCCESS with exit code 0 and another FAILED with
\* exit code 1.
C12_Witness ==
  \E r, q \in RunIds :
    /\ runs[r].mode = "CRON" /\ runs[r].status = "SUCCESS" /\ runs[r].finishedAt >= BootTime
    /\ runs[q].mode = "CRON" /\ runs[q].status = "FAILED" /\ runs[q].exitCode = 1
    /\ runs[q].errorMessage = "Process exited with code 1"


\* The step of operation o in which validateSession has returned null.
RejectStep(o) ==
  /\ ops[o].pc = "validateSession" /\ ops'[o].pc # "validateSession"
  /\ ops[o].snap \notin {"PENDING", "RUNNING"}

\* C13: a connect whose session id resolves to no run, to a SUCCESS or FAILED
\* run, or to a CRON run is rejected: the error frame is sent and the
\* connection closed, no session is stored, no keepalive interval is set and
\* no process is spawned.
C13_InvalidSessionRejected ==
  [][\A o \in OpIds : RejectStep(o) =>
       LET c == opConn[o]
       IN /\ conns'[c].state = "closed"
          /\ conns[c].state = "open" => conns'[c].frame = "Invalid or expired session"
          /\ ~conns'[c].pingInterval /\ ~conns'[c].listening
          /\ activeSessions' = activeSessions
          /\ \A r \in RunIds : activeSessions'[r] # c
          /\ ops'[o] = IdleOp
          /\ runs' = runs /\ runningProfileIds' = runningProfileIds
          /\ runningProcesses' = runningProcesses]_vars

\* A connect to a CRON run has been closed with the error frame.
C13_Witness ==
  \E c \in ConnIds :
    /\ conns[c].state = "closed" /\ conns[c].frame = "Invalid or expired session"
    /\ runs[conns[c].run].mode = "CRON"

\* The step of operation o in which startInteractiveRun of the handler has read
\* the run and found it RUNNING.
ResumeStep(o) ==
  /\ ops[o].pc = "ws.getRunById" /\ ops'[o].pc # "ws.getRunById"
  /\ ops[o].snap = "RUNNING"

\* C14: a connect that finds the run already RUNNING does not call startRun and
\* spawns no process; it sends the status frame 'Resumed existing interactive
\* session' on the new connection.
C14_ResumeDoesNotStart ==
  [][\A o \in OpIds : ResumeStep(o) =>
       /\ ops'[o] = IdleOp
       /\ \A q \in OpIds : ops'[q].proc = ops[q].proc
       /\ runs' = runs /\ runningProfileIds' = runningProfileIds
       /\ runningProcesses' = runningProcesses
       /\ conns[opConn[o]].state = "open"
            => conns'[opConn[o]].frame = "Resumed existing interactive session"]_vars

\* A connection has been told that it resumed a session whose process is alive.
C14_Witness ==
  \E c \in ConnIds, o \in OpIds :
    /\ conns[c].frame = "Resumed existing interactive session"
    /\ ops[o].run = conns[c].run /\ ops[o].proc = "alive"

\* Connection c is the connection of an active session: it is open, its session
\* is stored and its listeners are registered.
ActiveSession(c) ==
  /\ conns[c].state = "open" /\ conns[c].listening
  /\ activeSessions[conns[c].run] = c

\* C15: when the connection of an active session closes, the keepalive interval
\* is cleared and the session removed; no process is signalled and no run
\* record changes.
C15_DetachKeepsProcess ==
  [][\A c \in ConnIds : (ActiveSession(c) /\ conns'[c].state = "closed") =>
       /\ ~conns'[c].pingInterval
       /\ activeSessions'[conns[c].run] = 0
       /\ ops' = ops
       /\ runs' = runs /\ runningProfileIds' = runningProfileIds]_vars

\* The process of a RUNNING run is alive, unsignalled, and detached: no session
\* and no process entry is stored for the run, and its connection is closed.
C15_Witness ==
  \E o \in OpIds :
    /\ ops[o].kind = "ws" /\ ops[o].proc = "alive" /\ ~ops[o].signalled
    /\ runs[ops[o].run].status = "RUNNING"
    /\ conns[opConn[o]].state = "closed" /\ ~conns[opConn[o]].pingInterval
    /\ activeSessions[ops[o].run] = 0 /\ runningProcesses[ops[o].run] = 0

\* A step in which handleClientMessage runs.
MessageStep ==
  /\ stimuli' # stimuli
  /\ ops' = ops /\ conns' = conns /\ now' = now /\ profiles' = profiles

\* C16: sendInput writes the text and one newline to the stdin of the process
\* stored for the run; when no process is stored for the run it writes nothing
\* and changes no state.
C16_SendInput ==
  [][\A o \in OpIds : (stdin'[o] # stdin[o] /\ stdin'[o] # <<>>) =>
       LET line == stdin'[o][Len(stdin'[o])]
       IN /\ MessageStep
          /\ runningProcesses[ops[o].run] = o /\ ops[o].proc = "alive"
          /\ stdin'[o] = Append(stdin[o], line)
          /\ Len(line) >= 2 /\ line[Len(line)] = "\n"
          /\ \A i \in 1..(Len(line) - 1) : line[i] # "\n"
          /\ \A q \in OpIds \ {o} : stdin'[q] = stdin[q]
          /\ runs' = runs /\ runningProcesses' = runningProcesses
          /\ activeSessions' = activeSessions]_vars

\* Input has reached the process of a run that has been detached since.
C16_Witness ==
  \E o \in OpIds :
    /\ stdin[o] # <<>> /\ ops[o].proc = "alive"
    /\ runningProcesses[ops[o].run] = 0

\* Every connection that can deliver a message belongs to a session whose
\* process is stored and alive.
AllAttached ==
  \A c \in ConnIds : (conns[c].state = "open" /\ conns[c].listening) =>
    /\ activeSessions[conns[c].run] # 0
    /\ runningProcesses[conns[c].run] # 0
    /\ ops[runningProcesses[conns[c].run]].proc = "alive"

\* The lines the frames of Messages are expected to put on stdin.
ExpectedLines ==
  { stdinLine(<<"y">>) } \cup
  { stdinLine(m) : m \in { x \in Messages : ~StartsWith(x, PrefixType \o stdinType) } }

\* C17: every inbound frame of an active session reaches sendInput: the data of
\* a stdin frame unchanged, any other payload as raw text.
C17_EveryFrameForwarded ==
  [][(MessageStep /\ AllAttached) =>
       \E o \in OpIds, line \in ExpectedLines : stdin'[o] = Append(stdin[o], line)]_vars

\* The step of operation o in which the close or error handler sends its frame.
StatusFrameStep(o) == ops[o].pc = "outputCallback" /\ ops'[o].pc # "outputCallback"

\* C18: when the process of an interactive run exits, the terminal status is
\* written before the final status frame is sent, and the outcome of the frame
\* agrees with the stored status.
C18_FrameAgreesWithStatus ==
  [][\A o \in OpIds : StatusFrameStep(o) =>
       /\ runs[ops[o].run].status \in Terminal
       /\ ops[o].success <=> runs[ops[o].run].status = "SUCCESS"
       /\ conns[opConn[o]].state = "open"
            => conns'[opConn[o]].frame = statusFrame(ops[o])]_vars

\* The step of operation o in which the interactive start has reported its error.
SetupFailedStep(o) == ops[o].pc = "failRun" /\ ops'[o].pc # "failRun"

\* C19: when the interactive start fails after the connection was accepted, the
\* server sends an error frame and closes the connection, and no session stays
\* stored with an open connection for the run that was not started.
C19_SetupFailureCloses ==
  [][\A o \in OpIds : SetupFailedStep(o) =>
       LET c == opConn[o]
       IN /\ conns[c].state = "open" => conns'[c].frame = ops[o].threw
          /\ conns'[c].state = "closed"
          /\ activeSessions'[ops[o].run] # c]_vars


\* The step in which call k of scheduleProfile ends, for a profile that has a
\* schedule and an expression that is invalid also with its placeholders
\* replaced.
InvalidCronStep(k) ==
  /\ calls[k].pc = "getProfileById" /\ calls'[k].pc = "idle"
  /\ ~cronParses(replaceQuestionMarks(calls[k].cronExpression))
  /\ scheduledJobs[calls[k].profileId] # 0

\* C20: scheduleProfile with an invalid cron expression throws and leaves the
\* schedule of the profile as it was: no timer is cancelled and the entries in
\* scheduledJobs and resolvedCronExpressions are unchanged.
C20_InvalidCronLeavesSchedule ==
  [][\A k \in CallIds : InvalidCronStep(k) =>
       /\ calls'[k].threw # "null"
       /\ timers' = timers
       /\ scheduledJobs' = scheduledJobs
       /\ resolvedCronExpressions' = resolvedCronExpressions]_vars

\* The step in which call k, made by a pass of refreshSchedules, ends.
PassCallStep(k) ==
  /\ calls[k].pc = "getProfileById" /\ calls[k].pass # 0
  /\ calls'[k] # calls[k]

\* The job of profile p is registered and live.
Scheduled(p) ==
  /\ scheduledJobs[p] # 0
  /\ timers[scheduledJobs[p]].state = "live"
  /\ timers[scheduledJobs[p]].callback = p

\* C21: in a pass of refreshSchedules, when scheduleProfile fails for a profile
\* the failure is logged, the pass does not throw and goes on to the next
\* profile of the list, whatever the position; a profile whose scheduleProfile
\* does not fail is scheduled.
C21_FailureDoesNotStopPass ==
  [][\A k \in CallIds, ps \in PassIds, p \in AllProfiles :
       PassCallStep(k) /\ calls[k].pass = ps /\ calls[k].profileId = p =>
       LET list == passes[ps].list
           i == passes[ps].i
       IN /\ passes'[ps].threw = "null"
          /\ p \in passes'[ps].logged \/ Scheduled(p)'
          /\ IF i < Len(list)
             THEN /\ passes'[ps].pc = "scheduleProfile" /\ passes'[ps].i = i + 1
                  /\ calls'[k].pc = "getProfileById" /\ calls'[k].pass = ps
                  /\ calls'[k].profileId = list[i + 1].id
             ELSE passes'[ps].pc = "idle"]_vars

\* A pass over two profiles has ended: the first of its list failed and was
\* logged, the second is scheduled.
C21_Witness ==
  \E ps \in PassIds :
    /\ passes[ps].pc = "idle" /\ Len(passes[ps].list) = 2 /\ passes[ps].i = 2
    /\ passes[ps].threw = "null"
    /\ passes[ps].logged = {passes[ps].list[1].id}
    /\ Scheduled(passes[ps].list[2].id)

\* The live jobs whose callback runs executeScheduledRun for profile p.
LiveJobs(p) == {j \in TimerIds : timers[j].state = "live" /\ timers[j].callback = p}

\* C22: at every instant a profile has at most one live job that runs
\* executeScheduledRun for it, under every interleaving of scheduleProfile,
\* unscheduleProfile and refreshSchedules: when a scheduled profile is scheduled
\* again, its previous job is cancelled before the new one is registered.
C22_OneLiveTimer == \A p \in AllProfiles : Cardinality(LiveJobs(p)) <= 1

\* Two overlapping scheduleProfile calls of the routes for the same profile
\* have both registered a job: the job of the first is cancelled, the job of
\* the second is the live one.
C22_Witness ==
  \E p \in AllProfiles, j1, j2 \in TimerIds :
    /\ \A k \in CallIds : /\ calls[k].pc = "idle" /\ calls[k].profileId = p
                          /\ calls[k].pass = 0 /\ calls[k].threw = "null"
    /\ timers[j1].callback = p /\ timers[j1].state = "cancelled"
    /\ timers[j2].callback = p /\ timers[j2].state = "live" /\ j1 < j2
    /\ scheduledJobs[p] = j2

\* The only input since the boot was one call of refreshSchedules, and its pass
\* has ended: it is the second run after the one of initialize, on the same
\* profile store.
SecondPassEnded ==
  /\ boot = "listening" /\ stimuli = 1
  /\ \A p \in AllProfiles : profiles[p] = "enabled"
  /\ \E ps \in PassIds : passes[ps].caller = "request" /\ passes[ps].pc = "idle"

\* C23: refreshSchedules is idempotent.  With the profile store unchanged, the
\* second run leaves the scheduled profiles of the first run, each with the
\* resolved cron expression the first run gave it (the job of the first run is
\* the cancelled one, the job of the second the live one).
C23_RefreshIdempotent ==
  SecondPassEnded =>
    \A p \in AllProfiles :
      /\ Scheduled(p) <=> \E j \in TimerIds : /\ timers[j].callback = p
                                              /\ timers[j].state = "cancelled"
      /\ \A j \in TimerIds :
           timers[j].callback = p /\ timers[j].state = "cancelled"
             => /\ timers[scheduledJobs[p]].rule = timers[j].rule
                /\ resolvedCronExpressions[p] = timers[j].rule

\* The step in which a job of profile p fires: executeScheduledRun(p) begins.
FireStep(p) ==
  \E o \in OpIds : /\ ops[o].pc = "idle" /\ ops'[o].pc = "cleanupStaleRuns"
                   /\ ops'[o].kind = "cron" /\ ops'[o].profile = p

\* C24: the resolved cron expression of a profile is fixed when scheduleProfile
\* registers the job: it is the rule of the job, no '?' is left in its minute
\* and hour, and the rule of a live job never changes, so every firing of one
\* registration uses the same minute and hour.  A firing leaves scheduledJobs,
\* resolvedCronExpressions and the jobs unchanged.
C24_ResolvedOnceAtRegistration ==
  [][/\ \A p \in AllProfiles :
          /\ FireStep(p) => /\ scheduledJobs' = scheduledJobs
                            /\ resolvedCronExpressions' = resolvedCronExpressions
                            /\ timers' = timers
          /\ Scheduled(p)' => /\ resolvedCronExpressions'[p] = timers'[scheduledJobs'[p]].rule
                              /\ split(resolvedCronExpressions'[p])[1] # <<"?">>
                              /\ split(resolvedCronExpressions'[p])[2] # <<"?">>
     /\ \A j \in TimerIds :
          timers[j].state = "live" /\ timers'[j].state = "live"
            => timers'[j].rule = timers[j].rule]_vars

\* The one job registered for a profile whose stored expression is '? ? * * *'
\* has fired twice.
C24_Witness ==
  \E p \in AllProfiles :
    /\ Scheduled(p) /\ scheduleCron[p] = RandomCron
    /\ \A j \in TimerIds : timers[j].callback = p => j = scheduledJobs[p]
    /\ \A o \in OpIds : ops[o].kind = "cron" /\ ops[o].profile = p

\* shutdown() has been called and has returned (it does not await), and the
\* only scheduleProfile calls made are those of refreshSchedules.
ShutDown ==
  /\ boot = "listening" /\ ~scheduler.isRunning
  /\ \A k \in CallIds : calls[k].pass # 0 \/ calls[k].profileId = "none"

\* C28: after shutdown() has completed isRunning is false, the reconciliation
\* interval and the weekly cleanup job are cancelled, every profile job is
\* cancelled and scheduledJobs is empty, and no profile job is registered
\* afterwards, also when a pass of refreshSchedules was in flight.
C28_ShutdownIsFinal ==
  ShutDown =>
    /\ ~scheduler.reconciliationInterval
    /\ scheduler.cleanupJob = 0
    /\ \A j \in TimerIds : timers[j].callback = "cleanupOldRuns" => timers[j].state # "live"
    /\ \A p \in AllProfiles : scheduledJobs[p] = 0 /\ LiveJobs(p) = {}

\* The texts of the integers of lo..hi.
Numerals(lo, hi) == {toString(n) : n \in lo..hi}

\* C25: resolveRandomPlaceholders replaces a '?' minute field by an integer of
\* 0..59 and a '?' hour field by an integer of 0..23, and leaves every other
\* field unchanged; an expression without '?' in these two fields is returned
\* unchanged.
C25_PlaceholdersResolved ==
  pure.fn = "resolveRandomPlaceholders" =>
    LET parts == split(pure.cronExpression)
        resolved == split(pure.resolved)
    IN /\ Len(resolved) = Len(parts)
       /\ IF parts[1] = <<"?">> THEN resolved[1] \in Numerals(0, 59)
                                ELSE resolved[1] = parts[1]
       /\ IF parts[2] = <<"?">> THEN resolved[2] \in Numerals(0, 23)
                                ELSE resolved[2] = parts[2]
       /\ \A i \in 3..Len(parts) : resolved[i] = parts[i]
       /\ parts[1] # <<"?">> /\ parts[2] # <<"?">> => pure.resolved = pure.cronExpression

\* Both placeholders of an expression that has a '?' in another field as well
\* are resolved, to the top of the minute range and the bottom of the hour
\* range: the two draws do not depend on each other.
C25_Witness ==
  /\ pure.fn = "resolveRandomPlaceholders"
  /\ pure.cronExpression = <<"?", " ", "?", " ", "?", " ", "*", " ", "?">>
  /\ pure.resolved = <<"5", "9", " ", "0", " ", "?", " ", "*", " ", "?">>

\* Profiles that differ from profile at most in the stored passwords.
SameButPasswords(profile) ==
  {other \in CliProfiles :
     /\ other.withingsConfigDir = profile.withingsConfigDir
     /\ other.enableBloodPressure = profile.enableBloodPressure
     /\ (other.garminAccount = NoAccount) <=> (profile.garminAccount = NoAccount)
     /\ other.garminAccount.username = profile.garminAccount.username
     /\ (other.trainerroadAccount = NoAccount) <=> (profile.trainerroadAccount = NoAccount)
     /\ other.trainerroadAccount.username = profile.trainerroadAccount.username}

\* C29: in the logged command line every argument that immediately follows
\* --garmin-password or --trainerroad-password is '***MASKED***' and every other
\* argument is as buildCliArgs built it, so that two runs that differ only in
\* the decrypted passwords log the same command line.
C29_PasswordsMasked ==
  pure.fn = "buildCliArgs" =>
    /\ Len(pure.safeArgs) = Len(pure.args)
    /\ \A index \in 1..Len(pure.args) :
         pure.safeArgs[index] =
           IF index > 1 /\ pure.args[index - 1] \in {"--garmin-password", "--trainerroad-password"}
           THEN "***MASKED***" ELSE pure.args[index]
    /\ \A other \in SameButPasswords(pure.profile) :
         safeArgs(buildCliArgs(other, pure.logLevel)) = pure.safeArgs

\* The step in which isProfileRunning of operation o runs its sweep, and the
\* step in which its findFirst is issued.
SweepStep(o) == ops[o].pc = "idle" /\ ops'[o].pc = "cleanupStaleRuns"

FindFirstStep(o) == ops[o].pc = "cleanupStaleRuns" /\ ops'[o].pc = "isProfileRunning"

\* C27: isProfileRunning(P) first runs the stale sweep, which leaves no stale
\* RUNNING run, and then answers from the store alone: true exactly when some
\* run of P is RUNNING, whatever the in-memory guard set holds.
C27_AnswerFromStore ==
  [][\A o \in OpIds :
       /\ SweepStep(o) => /\ runs' = cleanupStaleRuns(runs, now)
                          /\ \A r \in RunIds : ~IsStale(runs'[r], now)
       /\ FindFirstStep(o) =>
            (ops'[o].snap = "running"
               <=> \E r \in RunIds : /\ runs[r].profile = ops[o].profile
                                     /\ runs[r].status = "RUNNING")]_vars

\* isProfileRunning has answered false for a profile that is in the guard set.
C27_Witness ==
  \E o \in OpIds : /\ ops[o].pc = "isProfileRunning" /\ ops[o].snap = "free"
                   /\ ops[o].profile \in runningProfileIds

\* Connection c is the active session of the run of process o after a
\* reconnect: the connection that started the process is closed.
Reattached(c, o) ==
  /\ ActiveSession(c) /\ ops[o].kind = "ws" /\ ops[o].run = conns[c].run
  /\ opConn[o] # c /\ conns[opConn[o]].state = "closed"

\* C30: after an interactive session was detached and a client has reconnected
\* to the run, which is still RUNNING, input sent over the new connection
\* reaches the process (the process is the one stored for the run), and the
\* final status frame of the process is sent on the new connection.
C30_ReattachedSession ==
  [][\A c \in ConnIds, o \in OpIds : Reattached(c, o) =>
       /\ (ops[o].proc = "alive" /\ runs[ops[o].run].status = "RUNNING")
            => runningProcesses[ops[o].run] = o
       /\ StatusFrameStep(o) => conns'[c].frame = statusFrame(ops[o])]_vars

---------------------------------------------------------------------------
(* RunService.cleanupOldRuns, called by the weekly job with daysOld = 30,   *)
(* beside the interactive sessions that change the status of a run.         *)

DAY_MIN == 1440

RETENTION_DAYS == 30

\* The where clause of the findMany and of the deleteMany of cleanupOldRuns.
IsOld(row, cutoffDate) == row.status \in {"SUCCESS", "FAILED"} /\ row.startedAt < cutoffDate

\* The weekly job fires: cleanupOldRuns(30) computes cutoffDate and awaits findMany.
cleanupOldRuns ==
  /\ boot = "listening" /\ purge.pc = "idle" /\ Stimulus
  /\ purge' = [purge EXCEPT !.pc = "findMany", !.cutoffDate = now - RETENTION_DAYS * DAY_MIN]
  /\ UNCHANGED <<coreVars, profiles, boot, schedVars, pure, logFilePath, logFiles>>

\* LogDirectoryService.deleteLogFile for the runs of a list: a file that exists
\* is unlinked.
deleteLogFiles(list) == {r \in list : logFilePath[r] /\ r \in logFiles}

\* findMany resolves with the old terminal runs of that moment; the loop deletes
\* the log file of each of them that has one; deleteMany is awaited.
cleanupFindMany ==
  /\ purge.pc = "findMany"
  /\ LET runsToDelete == {r \in RunIds : IsOld(runs[r], purge.cutoffDate)}
     IN /\ logFiles' = logFiles \ deleteLogFiles(runsToDelete)
        /\ purge' = [purge EXCEPT !.pc = "deleteMany", !.runsToDelete = runsToDelete,
                                  !.deletedLogFiles = Cardinality(deleteLogFiles(runsToDelete))]
  /\ UNCHANGED <<coreVars, profiles, boot, stimuli, schedVars, pure, logFilePath>>

\* deleteMany runs with the same where clause on the table of that moment, and
\* cleanupOldRuns returns the two counts.
cleanupDeleteMany ==
  /\ purge.pc = "deleteMany"
  /\ LET deleted == {r \in RunIds : IsOld(runs[r], purge.cutoffDate)}
     IN /\ runs' = [r \in RunIds |-> IF r \in deleted THEN NoRow ELSE runs[r]]
        /\ logFilePath' = [r \in RunIds |-> IF r \in deleted THEN FALSE ELSE logFilePath[r]]
        /\ purge' = [purge EXCEPT !.pc = "done", !.deletedRuns = Cardinality(deleted)]
  /\ UNCHANGED <<runningProfileIds, now, ops, orphans, sessVars>>
  /\ UNCHANGED <<profiles, boot, stimuli, schedVars, pure, logFiles>>

\* The moment of the weekly job: more than the retention after the boot.
CleanupTime == BootTime + (RETENTION_DAYS + 1) * DAY_MIN

\* A row of the table at that moment: its log file, if it has one, is on disk.
StoredRow(p, mode, status, startedAt, logged) ==
  [row |-> [NoRow EXCEPT !.profile = p, !.mode = mode, !.status = status,
                         !.startedAt = startedAt,
                         !.finishedAt = IF status \in Terminal THEN startedAt ELSE Null,
                         !.exitCode = IF status = "SUCCESS" THEN 0 ELSE Null],
   logged |-> logged]

\* Rows older than the retention: a MANUAL run nobody connected to, terminal runs
\* with and without a log file; and a recent terminal run.
StoredRows ==
  UNION { { StoredRow(p, "MANUAL", "PENDING", BootTime, FALSE),
            StoredRow(p, "MANUAL", "FAILED", BootTime, TRUE),
            StoredRow(p, "CRON", "SUCCESS", BootTime, TRUE),
            StoredRow(p, "CRON", "FAILED", BootTime, FALSE),
            StoredRow(p, "CRON", "SUCCESS", CleanupTime - DAY_MIN, TRUE) } : p \in Profiles }

\* The server is listening and idle when the weekly job is due; the table holds
\* two rows.  The scheduler's bookkeeping is not followed.
CleanupInit ==
  /\ \E first \in StoredRows, second \in StoredRows :
       /\ runs = [r \in RunIds |-> IF r = 1 THEN first.row
                                   ELSE IF r = 2 THEN second.row ELSE NoRow]
       /\ logFilePath = [r \in RunIds |-> IF r = 1 THEN first.logged
                                          ELSE IF r = 2 THEN second.logged ELSE FALSE]
  /\ logFiles = {r \in RunIds : logFilePath[r]}
  /\ purge = NoPurge
  /\ runningProfileIds = {}
  /\ profiles = [p \in AllProfiles |-> "enabled"]
  /\ now = CleanupTime
  /\ ops = [o \in OpIds |-> IdleOp]
  /\ boot = "listening"
  /\ orphans = {}
  /\ stimuli = 2
  /\ conns = [c \in ConnIds |-> NoConn]
  /\ activeSessions = [r \in RunIds |-> 0]
  /\ opConn = [o \in OpIds |-> 0]
  /\ runningProcesses = [r \in RunIds |-> 0]
  /\ stdin = [o \in OpIds |-> <<>>]
  /\ scheduler = NoScheduler
  /\ pure = NoPure
  /\ scheduledJobs = <<>> /\ resolvedCronExpressions = <<>> /\ timers = <<>>
  /\ calls = <<>> /\ passes = <<>> /\ scheduleCron = <<>>

CleanupNext ==
  \/ cleanupOldRuns
  \/ cleanupFindMany
  \/ cleanupDeleteMany
  \/ \E r \in RunIds : handleWebSocketConnection(r)
  \/ \E o \in OpIds : wsValidated(o)
  \/ \E o \in OpIds : wsStartInteractiveRun(o)
  \/ \E o \in OpIds : wsSetupFailed(o)
  \/ \E o \in OpIds : startRun(o)
  \/ \E o \in OpIds : runnerCatch(o)
  \/ \E o \in OpIds : spawnInteractiveProcess(o)
  \/ \E o \in OpIds, code \in {0, 1, Null} : interactiveClose(o, code)
  \/ \E o \in OpIds : interactiveError(o)
  \/ \E o \in OpIds : interactiveStatus(o)
  \/ \E c \in ConnIds, message \in Messages : clientMessage(c, message)
  \/ \E c \in ConnIds : clientClose(c)
  \/ \E c \in ConnIds : pingInterval(c)
  \/ \E o \in OpIds : completeRun(o)

CleanupSpec == CleanupInit /\ [][CleanupNext]_vars

\* The step in which the deleteMany of cleanupOldRuns runs.
DeleteManyStep == purge.pc = "deleteMany" /\ purge'.pc = "done"

\* C26: cleanupOldRuns(30) deletes exactly the runs that are SUCCESS or FAILED
\* and started before now - 30 days, never a PENDING or RUNNING one, and the log
\* file of every run it deletes is deleted too, also when the status of a run
\* changes while the purge is in flight.
C26_PurgeWithLogFiles ==
  [][DeleteManyStep =>
       \A r \in RunIds :
         /\ runs'[r] = NoRow /\ runs[r] # NoRow
              <=> runs[r].status \in Terminal /\ runs[r].startedAt < purge.cutoffDate
         /\ runs'[r] # NoRow => runs'[r] = runs[r]
         /\ runs'[r] = NoRow /\ runs[r] # NoRow /\ logFilePath[r] => r \notin logFiles']_vars

\* The step in which pass ps of refreshSchedules returns.
PassEndStep(ps) == passes[ps].pc # "idle" /\ passes'[ps].pc = "idle"

\* Nothing ran beside pass ps: no scheduleProfile call was awaiting at its call
\* and no input arrived since.
RanAlone(ps) == passes[ps].alone /\ stimuli = passes[ps].inputs

\* schedule.scheduleJob accepts the expression once its placeholders are resolved.
Schedulable(cronExpression) ==
  \A minute \in RandomMinutes, hour \in RandomHours :
    cronParses(resolveRandomPlaceholders(cronExpression, minute, hour))

\* C31: when a pass of refreshSchedules returns and nothing changed a profile
\* beside it, the profiles with a live job are exactly the enabled profiles whose
\* stored cron expression is not null and can be scheduled; the jobs of profiles
\* disabled or deleted since the pass before are cancelled.
C31_PassReconciles ==
  [][\A ps \in PassIds : PassEndStep(ps) /\ RanAlone(ps) =>
       \A p \in AllProfiles :
         LiveJobs(p)' # {} <=> /\ profiles[p] = "enabled" /\ scheduleCron[p] # <<>>
                               /\ Schedulable(scheduleCron[p])]_vars

\* A pass called by the interval ran alone after a scheduled profile was
\* disabled: the job of that profile is cancelled.
C31_Witness ==
  \E ps \in PassIds, p \in AllProfiles :
    /\ passes[ps].pc = "idle" /\ passes[ps].caller = "request" /\ RanAlone(ps)
    /\ profiles[p] = "disabled" /\ LiveJobs(p) = {}
    /\ \E j \in TimerIds : timers[j].state = "cancelled" /\ timers[j].callback = p

\* C32: in every reachable state a run that is PENDING or RUNNING has no
\* finishedAt, and a run that is SUCCESS or FAILED has one.
C32_FinishedAtMatchesStatus ==
  \A r \in RunIds :
    /\ runs[r].status \in {"PENDING", "RUNNING"} => runs[r].finishedAt = Null
    /\ runs[r].status \in Terminal => runs[r].finishedAt # Null

\* No scheduleProfile call and no pass of refreshSchedules is in flight.
SchedulerAtRest == PendingCalls = {} /\ \A ps \in PassIds : passes[ps].pc = "idle"

\* C33: between the operations of the scheduler a profile has a resolved cron
\* expression in resolvedCronExpressions exactly when it has a live job in
\* scheduledJobs: scheduleProfile (also when it fails), unscheduleProfile,
\* refreshSchedules and shutdown add or remove both entries together.
C33_MapsAgree ==
  SchedulerAtRest =>
    \A p \in AllProfiles : resolvedCronExpressions[p] # <<>> <=> Scheduled(p)

\* Run r was started by this process and is RUNNING.
StartedHere(r) == runs[r].status = "RUNNING" /\ runs[r].startedAt >= BootTime

\* C34: whenever a run of profile P started by this process is RUNNING, P is in
\* the guard set runningProfileIds: a failed start, the completion or the
\* cancellation of another run of P does not take P out of the set.
C34_RunningImpliesGuarded ==
  \A r \in RunIds : StartedHere(r) => runs[r].profile \in runningProfileIds

\* No call of the Ledger is in flight: every operation is idle or waits for an
\* event of its child process.
LedgerAtRest == \A o \in OpIds : ops[o].pc \in {"idle", "executeCli", "interactive", "finished"}

\* C35: whenever no Ledger operation is in flight and profile P is in the guard
\* set, some run of P is RUNNING: every path that takes a run out of RUNNING,
\* and a failure inside startRun, also removes P from the guard set.
C35_GuardedImpliesRunning ==
  LedgerAtRest =>
    \A p \in runningProfileIds : \E r \in RunIds : runs[r].profile = p /\ runs[r].status = "RUNNING"

\* The child processes spawned for run r that have not been reaped.
ProcessesOf(r) == {o \in OpIds : ops[o].kind = "ws" /\ ops[o].run = r /\ ops[o].proc # "none"}

\* C36: at most one child process is ever spawned for a run, under every
\* interleaving of several connects to its session with the start and the exit
\* of the process.
C36_OneProcessPerRun == \A r \in RunIds : Cardinality(ProcessesOf(r)) <= 1

\* C37: once a connection has closed, its session is not in activeSessions and
\* its keepalive interval is not running, also when it closes while the setup
\* of the connection is still awaiting the interactive start.
C37_ClosedConnectionLeavesNothing ==
  \A c \in ConnIds :
    conns[c].state = "closed" =>
      /\ ~conns[c].pingInterval
      /\ \A r \in RunIds : activeSessions[r] # c

\* The step in which connection c is closed by its client.
CloseStep(c) == conns[c].state = "open" /\ conns'[c].state = "closed" /\ stimuli' # stimuli

\* C38: when two connections are open for the same session id, closing one of
\* them does not remove the session entry of the other, does not stop its
\* keepalive interval and does not detach the process from it.
C38_CloseLeavesOtherSession ==
  [][\A c \in ConnIds : \A d \in ConnIds \ {c} :
       /\ CloseStep(c) /\ conns[d].state = "open" /\ conns[d].run = conns[c].run
       /\ activeSessions[conns[c].run] = d
       => /\ activeSessions'[conns[c].run] = d
          /\ conns'[d].pingInterval = conns[d].pingInterval
          /\ runningProcesses'[conns[c].run] = runningProcesses[conns[c].run]]_vars

\* The jobs the scheduler holds: the entries of scheduledJobs and the weekly
\* cleanup job.
HeldJobs == {scheduledJobs[p] : p \in DOMAIN scheduledJobs} \cup {scheduler.cleanupJob}

\* C39: between the calls of the scheduler, the timers live in the timer
\* facility are exactly the entries of scheduledJobs plus the weekly cleanup
\* job; no job registered by isValidCronExpression is among them.
C39_OnlyHeldJobsLive ==
  SchedulerAtRest =>
    \A j \in TimerIds : timers[j].state = "live" <=> j \in HeldJobs

---------------------------------------------------------------------------
(* The life of a run under the scheduling of the event loop.                *)

\* The inputs from outside that the life of a run is followed with.
LifeInputs == 3

\* The server is listening and idle; the table is empty or holds the PENDING
\* MANUAL run an earlier POST /profiles/:id/run-interactive created.  The
\* scheduler's bookkeeping and the log files are not followed.
LifeInit ==
  /\ runs \in { [r \in RunIds |-> IF r = 1 THEN row ELSE NoRow] :
                  row \in {NoRow, [NoRow EXCEPT !.profile = "p1", !.mode = "MANUAL",
                                                !.status = "PENDING", !.startedAt = BootTime]} }
  /\ runningProfileIds = {}
  /\ profiles = [p \in AllProfiles |-> "enabled"]
  /\ now = BootTime
  /\ ops = [o \in OpIds |-> IdleOp]
  /\ boot = "listening"
  /\ orphans = {}
  /\ stimuli = MaxStimuli - LifeInputs
  /\ conns = [c \in ConnIds |-> NoConn]
  /\ activeSessions = [r \in RunIds |-> 0]
  /\ opConn = [o \in OpIds |-> 0]
  /\ runningProcesses = [r \in RunIds |-> 0]
  /\ stdin = [o \in OpIds |-> <<>>]
  /\ scheduler = NoScheduler
  /\ pure = NoPure
  /\ logFilePath = <<>> /\ logFiles = {} /\ purge = NoPurge
  /\ scheduledJobs = <<>> /\ resolvedCronExpressions = <<>> /\ timers = <<>>
  /\ calls = <<>> /\ passes = <<>> /\ scheduleCron = <<>>

\* The continuation of the await operation o is suspended at: the event loop
\* runs it once the awaited promise has settled.
Continuation(o) ==
  \/ isProfileRunning(o)
  \/ esrGetProfile(o)
  \/ esrCreateRun(o)
  \/ runInteractiveCreate(o)
  \/ cancelRunWrite(o)
  \/ cancelRunRelease(o)
  \/ wsValidated(o)
  \/ wsStartInteractiveRun(o)
  \/ wsSetupFailed(o)
  \/ startRun(o)
  \/ runnerCatch(o)
  \/ executeCli(o)
  \/ spawnInteractiveProcess(o)
  \/ interactiveStatus(o)
  \/ completeRun(o)

\* The child process of operation o exits, or its spawn fails: the close or
\* error event.
ProcessExit(o) ==
  \/ \E code \in {0, 1, Null} : cliClose(o, code)
  \/ cliError(o)
  \/ \E code \in {0, 1, Null} : interactiveClose(o, code)
  \/ interactiveError(o)

\* An input from outside: a fire of a profile job, a request, a client.
Input ==
  \/ \E p \in Profiles : executeScheduledRun(p)
  \/ \E p \in Profiles : runInteractive(p)
  \/ \E r \in RunIds : cancelRun(r)
  \/ \E r \in RunIds : handleWebSocketConnection(r)
  \/ \E c \in ConnIds : clientClose(c)

LifeNext ==
  \/ Input
  \/ \E o \in OpIds : Continuation(o)
  \/ \E o \in OpIds : ProcessExit(o)
  \/ \E o \in OpIds, text \in Chunks : cliData(o, text)
  \/ \E o \in OpIds : cliTimeout(o)
  \/ \E c \in ConnIds : pingInterval(c)
  \/ Tick

\* Every suspended continuation is run, every child process exits, and the
\* timers (the timeout of executeCli, the keepalive interval) fire.
LifeFairness ==
  /\ \A o \in OpIds : WF_vars(Continuation(o))
  /\ \A o \in OpIds : WF_vars(ProcessExit(o))
  /\ \A o \in OpIds : WF_vars(cliTimeout(o))
  /\ \A c \in ConnIds : WF_vars(pingInterval(c))

LifeSpec == LifeInit /\ [][LifeNext]_vars /\ LifeFairness

\* C40: every run that becomes RUNNING eventually is SUCCESS or FAILED, when
\* every child process exits and the timers fire: scheduled runs, interactive
\* runs, and interactive runs whose session was detached.
C40_RunningReachesTerminal ==
  \A r \in RunIds : runs[r].status = "RUNNING" ~> runs[r].status \in Terminal

\* The process of a detached interactive run has exited and the run is terminal.
C40_Witness ==
  \E o \in OpIds :
    /\ ops[o].kind = "ws" /\ ops[o].pc = "outputCallback"
    /\ runs[ops[o].run].status \in Terminal
    /\ conns[opConn[o]].state = "closed"
    /\ \A r \in RunIds : runs[r].status # "RUNNING"

====
